---- MODULE Spec2Model ----
(***************************************************************************)
(* Existential-graph engine of EG-CL-Manus: the entity registry            *)
(* (eg_model.py), the editor (eg_editor.py), the validator (eg_logic.py),  *)
(* the CLIF translator (clif_translation.py) and the CLIF parser           *)
(* (clif_parser.py).                                                       *)
(*                                                                         *)
(* Ids.  Python ids are uuid4 strings, except the sheet whose id is 'SA'.  *)
(* Here an id is a natural: None is 0, 'SA' is 1, and the n-th uuid4()     *)
(* call returns n+1.  GraphModel.objects is a dict, so it iterates in      *)
(* insertion order, which is then ascending id order with SA first.        *)
(* The registry is split by class: children (Context, Cut), preds          *)
(* (Predicate), lines (LineOfIdentity), ligs (Ligature).                   *)
(* Text is a sequence of character codes.                                  *)
(***************************************************************************)
EXTENDS Integers, Sequences, FiniteSets, TLC

None == 0
SA == 1
Loop == -1

\* ------------------------------------------------------------------ bounds
MaxObjects == 3
MaxExtra == 1
MaxHook == 2
MaxPairs == 2
MaxSel == 2

\* ------------------------------------------------------------- characters
P == <<80>>
Q == <<81>>
a == <<97>>

\* ---------------------------------------------------------------- helpers
Range(s) == {s[i] : i \in DOMAIN s}

Drop(f, k) == [x \in (DOMAIN f) \ {k} |-> f[x]]

Put(f, k, v) == [x \in (DOMAIN f) \cup {k} |-> IF x = k THEN v ELSE f[x]]

Min(S) == CHOOSE x \in S : \A y \in S : x <= y

Max(S) == CHOOSE x \in S : \A y \in S : x >= y

RECURSIVE SetToSeq(_)
SetToSeq(S) == IF S = {} THEN <<>> ELSE <<Min(S)>> \o SetToSeq(S \ {Min(S)})

\* --------------------------------------------------------------- eg_model
GraphModel ==
    [children |-> (SA :> {}),
     preds |-> <<>>,
     lines |-> <<>>,
     ligs |-> <<>>,
     next |-> 2]

Registry(g) ==
    (DOMAIN g.children) \cup (DOMAIN g.preds) \cup (DOMAIN g.lines) \cup (DOMAIN g.ligs)

IsContext(g, id) == id \in DOMAIN g.children

IsCut(g, id) == id \in DOMAIN g.children /\ id # SA

IsPredicate(g, id) == id \in DOMAIN g.preds

IsLine(g, id) == id \in DOMAIN g.lines

Predicate(label, hooks, p_type, is_functional) ==
    [label |-> label,
     hooks |-> [i \in 1..hooks |-> None],
     p_type |-> p_type,
     is_functional |-> is_functional]

output_hook(p) == IF p.is_functional THEN Max(DOMAIN p.hooks) ELSE None

HookGet(p, h) == IF h \in DOMAIN p.hooks THEN p.hooks[h] ELSE None

remove_object(g, id) ==
    [g EXCEPT !.children = IF id \in DOMAIN @ THEN Drop(@, id) ELSE @,
              !.preds = IF id \in DOMAIN @ THEN Drop(@, id) ELSE @,
              !.lines = IF id \in DOMAIN @ THEN Drop(@, id) ELSE @,
              !.ligs = IF id \in DOMAIN @ THEN Drop(@, id) ELSE @]

\* ------------------------------------------------ eg_editor: context tree
get_parent_context(g, id) ==
    LET holders == {c \in DOMAIN g.children : id \in g.children[c]}
    IN IF holders = {} THEN None ELSE Min(holders)

RECURSIVE AncestorsFrom(_, _, _)
AncestorsFrom(g, cur, acc) ==
    IF cur = None THEN acc
    ELSE IF cur \in Range(acc) THEN Append(acc, Loop)
    ELSE AncestorsFrom(g, get_parent_context(g, cur), Append(acc, cur))

_get_ancestors(g, context_id) == AncestorsFrom(g, context_id, <<>>)

Diverges(path) == Len(path) > 0 /\ path[Len(path)] = Loop

_find_lca(g, context_ids) ==
    IF Len(context_ids) = 0 THEN None
    ELSE LET paths == [i \in DOMAIN context_ids |-> _get_ancestors(g, context_ids[i])]
             lca_path == SelectSeq(paths[1],
                             LAMBDA n : \A i \in DOMAIN paths : n \in Range(paths[i]))
         IN IF Len(lca_path) = 0 THEN None ELSE lca_path[1]

\* mutant: the walk collects the lowest common ancestor too
CutsUpTo_through_lca(g, cur, lca_id, seen) ==
    LET path == _get_ancestors(g, cur)
    IN {path[i] : i \in {k \in DOMAIN path :
                            IsCut(g, path[k]) /\ \A j \in 1..(k - 1) : path[j] # lca_id}}

RECURSIVE CutsUpTo(_, _, _, _)
CutsUpTo(g, cur, lca_id, seen) ==
    IF cur = None \/ cur = lca_id \/ cur \in seen THEN {}
    ELSE (IF IsCut(g, cur) THEN {cur} ELSE {})
         \cup CutsUpTo(g, get_parent_context(g, cur), lca_id, seen \cup {cur})

_calculate_traversed_cuts(g, lig_id) ==
    LET attachments == SetToSeq({pr[1] : pr \in g.ligs[lig_id].attachments})
        context_ids == [i \in DOMAIN attachments |-> get_parent_context(g, attachments[i])]
        lca_id == _find_lca(g, context_ids)
        traversed == UNION {CutsUpTo(g, context_ids[i], lca_id, {}) : i \in DOMAIN context_ids}
    IN IF Cardinality(g.ligs[lig_id].attachments) < 2 THEN g
       ELSE [g EXCEPT !.ligs[lig_id].traversed_cuts = traversed]

\* ------------------------------------------- eg_editor: construction calls
add_cut(g, parent_id) ==
    IF ~IsContext(g, parent_id)
    THEN [g |-> g, res |-> None, err |-> "ValueError"]
    ELSE [g |-> [g EXCEPT !.children = Put(Put(@, g.next, {}), parent_id,
                                            @[parent_id] \cup {g.next}),
                          !.next = @ + 1],
          res |-> g.next, err |-> ""]

add_predicate(g, label, hooks, parent_id, p_type, is_functional) ==
    IF ~IsContext(g, parent_id)
    THEN [g |-> g, res |-> None, err |-> "ValueError"]
    ELSE [g |-> [g EXCEPT !.preds = Put(@, g.next,
                                        Predicate(label, hooks, p_type, is_functional)),
                          !.children[parent_id] = @ \cup {g.next},
                          !.next = @ + 1],
          res |-> g.next, err |-> ""]

add_ligature(g) ==
    [g |-> [g EXCEPT !.lines = Put(@, g.next, {g.next + 1}),
                     !.ligs = Put(@, g.next + 1,
                                  [line_of_identity_id |-> g.next,
                                   attachments |-> {},
                                   traversed_cuts |-> {}]),
                     !.next = @ + 2],
     res |-> g.next + 1, err |-> ""]

\* ------------------------------------------------------ eg_editor: connect
\* mutant: the hooks of predicates are not rewritten
merge_lines_keeps_hooks(g, primary_line_id, other_line_id) ==
    IF ~IsLine(g, primary_line_id) \/ ~IsLine(g, other_line_id) THEN g
    ELSE LET moved == {l \in g.lines[other_line_id] : l \in DOMAIN g.ligs}
             g1 == [g EXCEPT
                      !.ligs = [l \in DOMAIN @ |->
                                  IF l \in moved
                                  THEN [@[l] EXCEPT !.line_of_identity_id = primary_line_id]
                                  ELSE @[l]],
                      !.lines[primary_line_id] = @ \cup moved]
         IN remove_object(g1, other_line_id)

_merge_lines(g, primary_line_id, other_line_id) ==
    IF ~IsLine(g, primary_line_id) \/ ~IsLine(g, other_line_id) THEN g
    ELSE LET moved == {l \in g.lines[other_line_id] : l \in DOMAIN g.ligs}
             g1 == [g EXCEPT
                      !.ligs = [l \in DOMAIN @ |->
                                  IF l \in moved
                                  THEN [@[l] EXCEPT !.line_of_identity_id = primary_line_id]
                                  ELSE @[l]],
                      !.lines[primary_line_id] = @ \cup moved,
                      !.preds = [p \in DOMAIN @ |->
                                  [@[p] EXCEPT !.hooks =
                                     [h \in DOMAIN @ |->
                                        IF @[h] = other_line_id
                                        THEN primary_line_id ELSE @[h]]]]]
         IN remove_object(g1, other_line_id)

\* mutant: the last bound hook of the list gives the primary line
FirstBound_last(g, pairs, i) ==
    LET bound == {k \in i..Len(pairs) :
                     /\ IsPredicate(g, pairs[k][1])
                     /\ HookGet(g.preds[pairs[k][1]], pairs[k][2]) # None}
    IN IF bound = {} THEN None
       ELSE g.preds[pairs[Max(bound)][1]].hooks[pairs[Max(bound)][2]]

RECURSIVE FirstBound(_, _, _)
FirstBound(g, pairs, i) ==
    IF i > Len(pairs) THEN None
    ELSE IF IsPredicate(g, pairs[i][1]) /\ HookGet(g.preds[pairs[i][1]], pairs[i][2]) # None
         THEN g.preds[pairs[i][1]].hooks[pairs[i][2]]
         ELSE FirstBound(g, pairs, i + 1)

\* mutant: the hook's line is merged without comparing it to the primary line
ConnectStep_always_merges(g, pair, primary_line_id) ==
    IF ~IsPredicate(g, pair[1]) THEN g
    ELSE LET existing_line_id == HookGet(g.preds[pair[1]], pair[2])
             g1 == IF existing_line_id # None
                   THEN _merge_lines(g, primary_line_id, existing_line_id)
                   ELSE g
         IN [g1 EXCEPT !.preds[pair[1]].hooks = Put(@, pair[2], primary_line_id)]

ConnectStep(g, pair, primary_line_id) ==
    IF ~IsPredicate(g, pair[1]) THEN g
    ELSE LET existing_line_id == HookGet(g.preds[pair[1]], pair[2])
             g1 == IF existing_line_id # None /\ existing_line_id # primary_line_id
                   THEN _merge_lines(g, primary_line_id, existing_line_id)
                   ELSE g
         IN [g1 EXCEPT !.preds[pair[1]].hooks = Put(@, pair[2], primary_line_id)]

RECURSIVE ConnectLoop(_, _, _, _)
ConnectLoop(g, pairs, i, primary_line_id) ==
    IF i > Len(pairs) THEN g
    ELSE ConnectLoop(ConnectStep(g, pairs[i], primary_line_id), pairs, i + 1,
                     primary_line_id)

CutsHang(g, lig_id) ==
    /\ Cardinality(g.ligs[lig_id].attachments) >= 2
    /\ \E pr \in g.ligs[lig_id].attachments :
          Diverges(_get_ancestors(g, get_parent_context(g, pr[1])))

\* mutant: the pairs are also added to the ligatures the line already has
connect_extends_ligatures(g, pred_hook_pairs) ==
    IF Len(pred_hook_pairs) = 0 THEN [g |-> g, res |-> None, err |-> ""]
    ELSE LET found == FirstBound(g, pred_hook_pairs, 1)
             g1 == IF found = None
                   THEN [g EXCEPT !.lines = Put(@, g.next, {}), !.next = @ + 1]
                   ELSE g
             primary_line_id == IF found = None THEN g.next ELSE found
             g2 == ConnectLoop(g1, pred_hook_pairs, 1, primary_line_id)
             new_ligature == g2.next
             g3 == [g2 EXCEPT !.ligs = Put([l \in DOMAIN @ |->
                                              IF @[l].line_of_identity_id = primary_line_id
                                              THEN [@[l] EXCEPT !.attachments =
                                                       @ \cup Range(pred_hook_pairs)]
                                              ELSE @[l]],
                                           new_ligature,
                                           [line_of_identity_id |-> primary_line_id,
                                            attachments |-> Range(pred_hook_pairs),
                                            traversed_cuts |-> {}]),
                              !.next = @ + 1]
             g4 == [g3 EXCEPT !.lines[primary_line_id] = @ \cup {new_ligature}]
         IN IF ~IsLine(g3, primary_line_id)
            THEN [g |-> g3, res |-> None, err |-> "AttributeError"]
            ELSE IF CutsHang(g4, new_ligature)
            THEN [g |-> g4, res |-> None, err |-> "Hang"]
            ELSE [g |-> _calculate_traversed_cuts(g4, new_ligature),
                  res |-> new_ligature, err |-> ""]

connect(g, pred_hook_pairs) ==
    IF Len(pred_hook_pairs) = 0 THEN [g |-> g, res |-> None, err |-> ""]
    ELSE LET found == FirstBound(g, pred_hook_pairs, 1)
             g1 == IF found = None
                   THEN [g EXCEPT !.lines = Put(@, g.next, {}), !.next = @ + 1]
                   ELSE g
             primary_line_id == IF found = None THEN g.next ELSE found
             g2 == ConnectLoop(g1, pred_hook_pairs, 1, primary_line_id)
             new_ligature == g2.next
             g3 == [g2 EXCEPT !.ligs = Put(@, new_ligature,
                                           [line_of_identity_id |-> primary_line_id,
                                            attachments |-> Range(pred_hook_pairs),
                                            traversed_cuts |-> {}]),
                              !.next = @ + 1]
             g4 == [g3 EXCEPT !.lines[primary_line_id] = @ \cup {new_ligature}]
         IN IF ~IsLine(g3, primary_line_id)
            THEN [g |-> g3, res |-> None, err |-> "AttributeError"]
            ELSE IF CutsHang(g4, new_ligature)
            THEN [g |-> g4, res |-> None, err |-> "Hang"]
            ELSE [g |-> _calculate_traversed_cuts(g4, new_ligature),
                  res |-> new_ligature, err |-> ""]

add_constant(g, constant_name, parent_id) ==
    LET r == add_predicate(g, constant_name, 1, parent_id, "constant", FALSE)
    IN IF r.err # "" THEN r
       ELSE LET c == connect(r.g, <<<<r.res, 1>>>>)
            IN [g |-> c.g, res |-> r.res, err |-> c.err]

\* mutant: the ligature and the predicate go, the line stays
erase_constant_keeps_line(g, predicate_id) ==
    IF ~IsPredicate(g, predicate_id) \/ g.preds[predicate_id].p_type # "constant"
    THEN [g |-> g, res |-> None, err |-> "ValueError"]
    ELSE LET line_id == HookGet(g.preds[predicate_id], 1)
             standalone ==
                 /\ IsLine(g, line_id)
                 /\ Cardinality(g.lines[line_id]) = 1
                 /\ \E l \in g.lines[line_id] :
                       l \in DOMAIN g.ligs /\ Cardinality(g.ligs[l].attachments) = 1
             g1 == IF line_id = None THEN g
                   ELSE remove_object(g, CHOOSE l \in g.lines[line_id] : TRUE)
             parent_id == get_parent_context(g1, predicate_id)
             g2 == IF parent_id # None
                   THEN [g1 EXCEPT !.children[parent_id] = @ \ {predicate_id}]
                   ELSE g1
         IN IF line_id # None /\ ~standalone
            THEN [g |-> g, res |-> None, err |-> "ValueError"]
            ELSE [g |-> remove_object(g2, predicate_id), res |-> None, err |-> ""]

erase_constant(g, predicate_id) ==
    IF ~IsPredicate(g, predicate_id) \/ g.preds[predicate_id].p_type # "constant"
    THEN [g |-> g, res |-> None, err |-> "ValueError"]
    ELSE LET line_id == HookGet(g.preds[predicate_id], 1)
             standalone ==
                 /\ IsLine(g, line_id)
                 /\ Cardinality(g.lines[line_id]) = 1
                 /\ \E l \in g.lines[line_id] :
                       l \in DOMAIN g.ligs /\ Cardinality(g.ligs[l].attachments) = 1
             g1 == IF line_id = None THEN g
                   ELSE remove_object(remove_object(g, CHOOSE l \in g.lines[line_id] : TRUE),
                                      line_id)
             parent_id == get_parent_context(g1, predicate_id)
             g2 == IF parent_id # None
                   THEN [g1 EXCEPT !.children[parent_id] = @ \ {predicate_id}]
                   ELSE g1
         IN IF line_id # None /\ ~standalone
            THEN [g |-> g, res |-> None, err |-> "ValueError"]
            ELSE [g |-> remove_object(g2, predicate_id), res |-> None, err |-> ""]

apply_total_function_rule(g, function_name, arity, input_line_ids, parent_id) ==
    LET r == add_predicate(g, function_name, arity, parent_id, "relation", TRUE)
    IN IF r.err # "" THEN r
       ELSE LET output_line == r.g.next
                hooks1 == [h \in (1..arity) \cup (1..Len(input_line_ids)) |->
                             IF h <= Len(input_line_ids) THEN input_line_ids[h] ELSE None]
            IN [g |-> [r.g EXCEPT !.preds[r.res].hooks = Put(hooks1, arity, output_line),
                                  !.lines = Put(@, output_line, {}),
                                  !.next = @ + 1],
                res |-> r.res, err |-> ""]

\* ------------------------------------------------------ eg_logic: Validator
\* DepthFrom is the while loop of get_context_depth; Loop when the walk never ends
\* mutant: the walk stops after the first hop
DepthFrom_one_hop(g, current_id, depth, seen) ==
    IF current_id = None \/ current_id = SA THEN depth
    ELSE IF get_parent_context(g, current_id) = None THEN depth
    ELSE depth + 1

RECURSIVE DepthFrom(_, _, _, _)
DepthFrom(g, current_id, depth, seen) ==
    IF current_id = None \/ current_id = SA THEN depth
    ELSE IF current_id \in seen THEN Loop
    ELSE IF get_parent_context(g, current_id) = None THEN depth
    ELSE DepthFrom(g, get_parent_context(g, current_id), depth + 1,
                   seen \cup {current_id})

get_context_depth(g, context_id) == DepthFrom(g, context_id, 0, {})

is_positive_context(g, context_id) == get_context_depth(g, context_id) % 2 = 0

is_negative_context(g, context_id) == ~is_positive_context(g, context_id)

can_remove_double_cut(g, cut_id) ==
    /\ IsCut(g, cut_id)
    /\ Cardinality(g.children[cut_id]) = 1
    /\ \A c \in g.children[cut_id] : IsCut(g, c)

\* "yes", "no", or "hang" when the upward walk from the target never ends
can_iterate(g, selection, target_context_id) ==
    IF Len(selection) = 0 \/ target_context_id = None THEN "no"
    ELSE LET source_context_id == get_parent_context(g, selection[1])
             path == _get_ancestors(g, target_context_id)
         IN IF source_context_id = target_context_id THEN "no"
            ELSE IF source_context_id # None /\ source_context_id \in Range(path) THEN "yes"
            ELSE IF Diverges(path) THEN "hang"
            ELSE "no"

\* "yes", "no", or the exception the check itself raises
\* mutant: the output bindings are not compared
can_apply_ignores_outputs(g, pred1_id, pred2_id) ==
    IF ~IsPredicate(g, pred1_id) \/ ~IsPredicate(g, pred2_id) THEN "no"
    ELSE LET pred1 == g.preds[pred1_id]
             pred2 == g.preds[pred2_id]
             out == output_hook(pred1)
         IN IF ~(pred1.is_functional /\ pred2.is_functional) THEN "no"
            ELSE IF pred1.label # pred2.label
                    \/ Cardinality(DOMAIN pred1.hooks) # Cardinality(DOMAIN pred2.hooks)
            THEN "no"
            ELSE IF DOMAIN pred1.hooks = {} THEN "ValueError"
            ELSE LET firstBad == {i \in 1..(out - 1) :
                                     \/ i \notin DOMAIN pred1.hooks
                                     \/ i \notin DOMAIN pred2.hooks
                                     \/ pred1.hooks[i] # pred2.hooks[i]}
                     stop == IF firstBad = {} THEN out ELSE Min(firstBad)
                 IN IF stop < out
                    THEN (IF stop \in DOMAIN pred1.hooks /\ stop \in DOMAIN pred2.hooks
                          THEN "no" ELSE "KeyError")
                    ELSE IF out \notin DOMAIN pred2.hooks THEN "KeyError"
                    ELSE "yes"

can_apply_functional_property_rule(g, pred1_id, pred2_id) ==
    IF ~IsPredicate(g, pred1_id) \/ ~IsPredicate(g, pred2_id) THEN "no"
    ELSE LET pred1 == g.preds[pred1_id]
             pred2 == g.preds[pred2_id]
             out == output_hook(pred1)
         IN IF ~(pred1.is_functional /\ pred2.is_functional) THEN "no"
            ELSE IF pred1.label # pred2.label
                    \/ Cardinality(DOMAIN pred1.hooks) # Cardinality(DOMAIN pred2.hooks)
            THEN "no"
            ELSE IF DOMAIN pred1.hooks = {} THEN "ValueError"
            ELSE LET firstBad == {i \in 1..(out - 1) :
                                     \/ i \notin DOMAIN pred1.hooks
                                     \/ i \notin DOMAIN pred2.hooks
                                     \/ pred1.hooks[i] # pred2.hooks[i]}
                     stop == IF firstBad = {} THEN out ELSE Min(firstBad)
                 IN IF stop < out
                    THEN (IF stop \in DOMAIN pred1.hooks /\ stop \in DOMAIN pred2.hooks
                          THEN "no" ELSE "KeyError")
                    ELSE IF out \notin DOMAIN pred2.hooks THEN "KeyError"
                    ELSE IF pred1.hooks[out] = pred2.hooks[out] /\ pred1.hooks[out] # None
                    THEN "no"
                    ELSE "yes"

\* --------------------------------------- eg_editor: transformation rules
insert_double_cut(g, selection_ids, parent_id) ==
    LET parent == IF Len(selection_ids) > 0
                  THEN get_parent_context(g, selection_ids[1]) ELSE parent_id
        outer == add_cut(g, parent)
        inner == add_cut(outer.g, outer.res)
    IN IF outer.err # "" THEN outer
       ELSE IF Len(selection_ids) = 0 THEN [g |-> inner.g, res |-> outer.res, err |-> ""]
       ELSE [g |-> [inner.g EXCEPT !.children[parent] = @ \ Range(selection_ids),
                                   !.children[inner.res] = @ \cup Range(selection_ids)],
             res |-> outer.res, err |-> ""]

remove_double_cut(g, outer_cut_id) ==
    IF ~can_remove_double_cut(g, outer_cut_id)
    THEN [g |-> g, res |-> None, err |-> "ValueError"]
    ELSE LET inner_cut_id == CHOOSE c \in g.children[outer_cut_id] : TRUE
             parent_id == get_parent_context(g, outer_cut_id)
             moved == g.children[inner_cut_id]
             g1 == [g EXCEPT !.children[inner_cut_id] = {}]
             g2 == [g1 EXCEPT !.children[parent_id] = (@ \cup moved) \ {outer_cut_id}]
         IN IF parent_id = None
            THEN [g |-> IF moved = {} THEN g
                        ELSE [g EXCEPT !.children[inner_cut_id] = @ \ {Min(@)}],
                  res |-> None, err |-> "AttributeError"]
            ELSE [g |-> remove_object(remove_object(g2, outer_cut_id), inner_cut_id),
                  res |-> None, err |-> ""]

IdMap(g, selection_ids, obj_id) ==
    g.next + Max({i \in DOMAIN selection_ids : selection_ids[i] = obj_id}) - 1

\* mutant: the copy of a predicate is built anew, its hooks unbound
RECURSIVE IterateLoop_unbound(_, _, _, _, _)
IterateLoop_unbound(g, g0, selection_ids, i, target_context_id) ==
    IF i > Len(selection_ids) THEN [g |-> g, res |-> None, err |-> ""]
    ELSE LET obj_id == selection_ids[i]
             new_id == IdMap(g0, selection_ids, obj_id)
             g1 == [g EXCEPT !.children[target_context_id] = @ \cup {new_id}]
             g2 == IF IsPredicate(g, obj_id)
                   THEN [g1 EXCEPT !.preds = Put(@, new_id,
                            [g.preds[obj_id] EXCEPT !.hooks = [h \in DOMAIN @ |-> None]])]
                   ELSE [g1 EXCEPT !.children = Put(@, new_id, g.children[obj_id])]
         IN IF ~IsPredicate(g, obj_id) /\ ~IsContext(g, obj_id)
            THEN [g |-> g, res |-> None, err |-> "AttributeError"]
            ELSE IF ~IsContext(g, target_context_id)
            THEN [g |-> g, res |-> None, err |-> "AttributeError"]
            ELSE IF new_id \in Registry(g)
            THEN [g |-> g1, res |-> None, err |-> "ValueError"]
            ELSE IterateLoop_unbound(g2, g0, selection_ids, i + 1, target_context_id)

RECURSIVE IterateLoop(_, _, _, _, _)
IterateLoop(g, g0, selection_ids, i, target_context_id) ==
    IF i > Len(selection_ids) THEN [g |-> g, res |-> None, err |-> ""]
    ELSE LET obj_id == selection_ids[i]
             new_id == IdMap(g0, selection_ids, obj_id)
             g1 == [g EXCEPT !.children[target_context_id] = @ \cup {new_id}]
             g2 == IF IsPredicate(g, obj_id)
                   THEN [g1 EXCEPT !.preds = Put(@, new_id, g.preds[obj_id])]
                   ELSE [g1 EXCEPT !.children = Put(@, new_id, g.children[obj_id])]
         IN IF ~IsPredicate(g, obj_id) /\ ~IsContext(g, obj_id)
            THEN [g |-> g, res |-> None, err |-> "AttributeError"]
            ELSE IF ~IsContext(g, target_context_id)
            THEN [g |-> g, res |-> None, err |-> "AttributeError"]
            ELSE IF new_id \in Registry(g)
            THEN [g |-> g1, res |-> None, err |-> "ValueError"]
            ELSE IterateLoop(g2, g0, selection_ids, i + 1, target_context_id)

iterate(g, selection_ids, target_context_id) ==
    LET ok == can_iterate(g, selection_ids, target_context_id)
    IN IF ok = "no" THEN [g |-> g, res |-> None, err |-> "ValueError"]
       ELSE IF ok = "hang" THEN [g |-> g, res |-> None, err |-> "Hang"]
       ELSE IterateLoop([g EXCEPT !.next = @ + Len(selection_ids)], g,
                        selection_ids, 1, target_context_id)

apply_functional_property_rule(g, pred1_id, pred2_id) ==
    LET ok == can_apply_functional_property_rule(g, pred1_id, pred2_id)
    IN IF ok = "no" THEN [g |-> g, res |-> None, err |-> "ValueError"]
       ELSE IF ok # "yes" THEN [g |-> g, res |-> None, err |-> ok]
       ELSE LET out == output_hook(g.preds[pred1_id])
                c == connect(g, <<<<pred1_id, out>>, <<pred2_id, out>>>>)
            IN [g |-> c.g, res |-> None, err |-> c.err]

\* --------------------------------------------------------------------- text
\* A text is a sequence of character codes; Python compares strings by code.
SP == 32
LP == 40
RP == 41

Str_and == <<97, 110, 100>>
Str_not == <<110, 111, 116>>
Str_exists == <<101, 120, 105, 115, 116, 115>>
Str_eq == <<61>>

RECURSIVE StrLess(_, _)
StrLess(s, t) ==
    IF Len(t) = 0 THEN FALSE
    ELSE IF Len(s) = 0 THEN TRUE
    ELSE IF s[1] # t[1] THEN s[1] < t[1]
    ELSE StrLess(Tail(s), Tail(t))

RECURSIVE InsertSorted(_, _)
InsertSorted(sorted, x) ==
    IF Len(sorted) = 0 THEN <<x>>
    ELSE IF StrLess(x, sorted[1]) THEN <<x>> \o sorted
    ELSE <<sorted[1]>> \o InsertSorted(Tail(sorted), x)

RECURSIVE SortStrs(_)
SortStrs(list) ==
    IF Len(list) = 0 THEN <<>>
    ELSE InsertSorted(SortStrs(Tail(list)), list[1])

RECURSIVE Join(_)
Join(list) ==
    IF Len(list) = 0 THEN <<>>
    ELSE IF Len(list) = 1 THEN list[1]
    ELSE list[1] \o <<SP>> \o Join(Tail(list))

RECURSIVE Digits(_)
Digits(n) == IF n < 10 THEN <<48 + n>> ELSE Digits(n \div 10) \o <<48 + (n % 10)>>

VarName(n) == <<63, 118>> \o Digits(n)

\* ------------------------------------------------------- clif_translation
\* Two things the translator reads are fixed by the uuid4 strings and not by
\* the graph: the order in which a Python set of ids is iterated, and the order
\* sorted() gives to line ids.  An order is a sequence listing ids; ids it does
\* not list follow in ascending order.  One order serves every set: two sets
\* that share members are iterated consistently.
Ordered(S, order) ==
    SelectSeq(order, LAMBDA x : x \in S) \o SetToSeq(S \ Range(order))

\* mutant: a line whose ligatures attach nothing has no scope
line_scope_without_default(g, line_id) ==
    IF ~IsLine(g, line_id) \/ g.lines[line_id] = {} THEN None
    ELSE LET attachment_contexts ==
                 {get_parent_context(g, pr[1]) :
                     pr \in UNION {g.ligs[l].attachments :
                                      l \in g.lines[line_id] \cap DOMAIN g.ligs}} \ {None}
         IN IF attachment_contexts = {} THEN None
            ELSE _find_lca(g, SetToSeq(attachment_contexts))

_get_line_scope(g, line_id) ==
    IF ~IsLine(g, line_id) \/ g.lines[line_id] = {} THEN None
    ELSE LET attachment_contexts ==
                 {get_parent_context(g, pr[1]) :
                     pr \in UNION {g.ligs[l].attachments :
                                      l \in g.lines[line_id] \cap DOMAIN g.ligs}} \ {None}
         IN IF attachment_contexts = {} THEN SA
            ELSE _find_lca(g, SetToSeq(attachment_contexts))

\* the translator's variable_counter and line_to_variable_map
NoVars == [counter |-> 0, map |-> <<>>]

_get_variable_for_line(st, line_id) ==
    IF line_id \in DOMAIN st.map THEN st
    ELSE [counter |-> st.counter + 1, map |-> Put(st.map, line_id, st.counter + 1)]

RECURSIVE AssignVars(_, _)
AssignVars(st, line_ids) ==
    IF Len(line_ids) = 0 THEN st
    ELSE AssignVars(_get_variable_for_line(st, line_ids[1]), Tail(line_ids))

\* the breadth-first collection of the lines used in the subgraph of a context
RECURSIVE LinesInSubgraph(_, _, _)
LinesInSubgraph(g, queue, visited) ==
    IF queue = {} THEN {}
    ELSE LET kids == UNION {g.children[c] : c \in queue}
             cuts == {k \in kids : IsCut(g, k)} \ visited
         IN {l \in UNION {Range(g.preds[k].hooks) : k \in kids \cap DOMAIN g.preds} :
                l # None}
            \cup LinesInSubgraph(g, cuts, visited \cup cuts)

\* the lines whose variables _translate_context quantifies at a context, in
\* the order of sorted_lines
ScopedLines(g, context_id, sort) ==
    SelectSeq(Ordered(LinesInSubgraph(g, {context_id}, {context_id}), sort),
              LAMBDA l : _get_line_scope(g, l) = context_id)

_translate_predicate(g, st, pred_id) ==
    LET predicate == g.preds[pred_id]
        keys == SetToSeq(DOMAIN predicate.hooks)
        out == output_hook(predicate)
        order == IF predicate.is_functional
                 THEN <<out>> \o SelectSeq(keys, LAMBDA k : k # out)
                 ELSE keys
        st1 == AssignVars(st, [i \in DOMAIN order |-> predicate.hooks[order[i]]])
        name(k) == VarName(st1.map[predicate.hooks[k]])
        input_vars == [i \in 1..(Len(order) - 1) |-> name(order[i + 1])]
        terms == [i \in DOMAIN keys |-> name(keys[i])]
    IN IF predicate.is_functional /\ Len(keys) = 0
       THEN [st |-> st, text |-> <<>>, err |-> "ValueError"]
       ELSE IF predicate.is_functional
       THEN [st |-> st1,
             text |-> <<LP>> \o Str_eq \o <<SP>> \o name(out) \o <<SP, LP>>
                      \o predicate.label
                      \o (IF Len(input_vars) > 0 THEN <<SP>> ELSE <<>>)
                      \o Join(input_vars) \o <<RP, RP>>,
             err |-> ""]
       ELSE IF Len(keys) = 0 THEN [st |-> st, text |-> predicate.label, err |-> ""]
       ELSE [st |-> st1,
             text |-> <<LP>> \o predicate.label \o <<SP>> \o Join(terms) \o <<RP>>,
             err |-> ""]

RECURSIVE _translate_context(_, _, _, _, _, _)
RECURSIVE TranslateChildren(_, _, _, _, _, _, _)

\* the loop over context.children; stack holds the contexts being translated
TranslateChildren(g, kids, st, clauses, stack, iter, sort) ==
    IF Len(kids) = 0 THEN [st |-> st, clauses |-> clauses, err |-> ""]
    ELSE IF IsPredicate(g, kids[1])
    THEN LET r == _translate_predicate(g, st, kids[1])
         IN IF r.err # "" THEN [st |-> r.st, clauses |-> clauses, err |-> r.err]
            ELSE TranslateChildren(g, Tail(kids), r.st, Append(clauses, r.text), stack,
                                   iter, sort)
    ELSE IF IsCut(g, kids[1])
    THEN LET r == _translate_context(g, kids[1], st, stack, iter, sort)
         IN IF r.err # "" THEN [st |-> r.st, clauses |-> clauses, err |-> r.err]
            ELSE TranslateChildren(g, Tail(kids), r.st, Append(clauses, r.text), stack,
                                   iter, sort)
    ELSE TranslateChildren(g, Tail(kids), st, clauses, stack, iter, sort)

_translate_context(g, context_id, st, stack, iter, sort) ==
    IF context_id \in stack THEN [st |-> st, text |-> <<>>, err |-> "RecursionError"]
    ELSE LET scoped == ScopedLines(g, context_id, sort)
             st1 == AssignVars(st, scoped)
             vars_to_quantify == [i \in DOMAIN scoped |-> VarName(st1.map[scoped[i]])]
             r == TranslateChildren(g, Ordered(g.children[context_id], iter), st1, <<>>,
                                    stack \cup {context_id}, iter, sort)
             sorted_clauses == SortStrs(r.clauses)
             joined == IF Len(sorted_clauses) > 1
                       THEN <<LP>> \o Str_and \o <<SP>> \o Join(sorted_clauses) \o <<RP>>
                       ELSE sorted_clauses[1]
             body == IF context_id # SA
                     THEN <<LP>> \o Str_not \o <<SP>> \o joined \o <<RP>>
                     ELSE joined
         IN IF r.err # "" THEN [st |-> r.st, text |-> <<>>, err |-> r.err]
            ELSE IF Len(r.clauses) = 0 THEN [st |-> r.st, text |-> <<>>, err |-> ""]
            ELSE IF Len(scoped) > 0
            THEN [st |-> r.st,
                  text |-> <<LP>> \o Str_exists \o <<SP, LP>>
                           \o Join(SortStrs(vars_to_quantify)) \o <<RP, SP>> \o body
                           \o <<RP>>,
                  err |-> ""]
            ELSE [st |-> r.st, text |-> body, err |-> ""]

\* translate() under the given set-iteration and id-sort orders
translate(g, iter, sort) == _translate_context(g, SA, NoVars, {}, iter, sort)

\* ------------------------------------------------------------ clif_parser
IsLower(c) == c >= 97 /\ c <= 122

IsUpper(c) == c >= 65 /\ c <= 90

\* str.islower(), str.isupper(): some cased character, and none of the other case
islower(token) ==
    (\E i \in DOMAIN token : IsLower(token[i])) /\ (\A i \in DOMAIN token : ~IsUpper(token[i]))

isupper(token) ==
    (\E i \in DOMAIN token : IsUpper(token[i])) /\ (\A i \in DOMAIN token : ~IsLower(token[i]))

capitalize(token) ==
    [i \in DOMAIN token |->
        IF i = 1 THEN (IF IsLower(token[i]) THEN token[i] - 32 ELSE token[i])
        ELSE (IF IsUpper(token[i]) THEN token[i] + 32 ELSE token[i])]

\* Python slice s[lo:hi] of a list, 0-based, negative bounds counted from the end
PySlice(seq, lo, hi) ==
    LET norm(k) == IF k < 0 THEN (IF k + Len(seq) < 0 THEN 0 ELSE k + Len(seq))
                   ELSE (IF k > Len(seq) THEN Len(seq) ELSE k)
    IN SubSeq(seq, norm(lo) + 1, norm(hi))

\* the characters Python's \s matches, among the ASCII ones
IsSpace(c) == c \in {9, 10, 11, 12, 13, 28, 29, 30, 31, 32}

\* position i lies in a comment: after a ';' with no line end in between
InComment(text, i) ==
    \E j \in 1..i : text[j] = 59 /\ \A k \in j..i : text[k] # 10

IsParen(text, i) == text[i] \in {LP, RP} /\ ~InComment(text, i)

IsWord(text, i) ==
    ~InComment(text, i) /\ ~IsSpace(text[i]) /\ text[i] \notin {LP, RP}

\* re.findall of the token pattern on the text without its comments
Scan(text) ==
    LET starts == {i \in DOMAIN text :
                      \/ IsParen(text, i)
                      \/ IsWord(text, i) /\ (i = 1 \/ ~IsWord(text, i - 1))}
        stop(i) == Max({j \in i..Len(text) : \A k \in i..j : IsWord(text, k)})
        order == SetToSeq(starts)
    IN [n \in DOMAIN order |->
           IF IsParen(text, order[n]) THEN <<text[order[n]]>>
           ELSE SubSeq(text, order[n], stop(order[n]))]

RECURSIVE ParenCount(_, _, _)
ParenCount(tokens, i, count) ==
    IF i > Len(tokens) THEN count
    ELSE IF tokens[i] = <<LP>> THEN ParenCount(tokens, i + 1, count + 1)
    ELSE IF tokens[i] = <<RP>>
    THEN (IF count - 1 < 0 THEN -1 ELSE ParenCount(tokens, i + 1, count - 1))
    ELSE ParenCount(tokens, i + 1, count)

_tokenize(clif_string) ==
    LET tokens == Scan(clif_string)
    IN IF Len(tokens) = 0 THEN [tokens |-> <<>>, err |-> "Empty expression"]
       ELSE IF ParenCount(tokens, 1, 0) < 0
       THEN [tokens |-> <<>>, err |-> "Unmatched closing parenthesis"]
       ELSE IF ParenCount(tokens, 1, 0) # 0
       THEN [tokens |-> <<>>, err |-> "Unmatched opening parenthesis"]
       ELSE [tokens |-> tokens, err |-> ""]

\* index (0-based, as in the source) of the matching parenthesis, or -1
RECURSIVE MatchFrom(_, _, _)
MatchFrom(tokens, i, count) ==
    IF i >= Len(tokens) THEN -1
    ELSE IF tokens[i + 1] = <<LP>> THEN MatchFrom(tokens, i + 1, count + 1)
    ELSE IF tokens[i + 1] = <<RP>>
    THEN (IF count - 1 = 0 THEN i ELSE MatchFrom(tokens, i + 1, count - 1))
    ELSE MatchFrom(tokens, i + 1, count)

_find_matching_paren(tokens, start) ==
    IF start >= Len(tokens) \/ tokens[start + 1] # <<LP>> THEN -1
    ELSE MatchFrom(tokens, start + 1, 1)

_is_constant(token) ==
    IF Len(token) = 1 /\ isupper(token) THEN FALSE
    ELSE islower(token) \/ (IsLower(token[1]) /\ Len(token) > 1)

\* the parser: the editor's model and the three maps of ClifParser
NewParser(g) ==
    [g |-> g, variable_map |-> <<>>, constant_predicates |-> <<>>,
     hook_connections |-> <<>>]

_create_line_of_identity(ps) ==
    LET r == add_ligature(ps.g)
    IN [ps |-> [ps EXCEPT !.g = r.g], line |-> r.g.ligs[r.res].line_of_identity_id]

_get_or_create_line_for_variable(ps, variable) ==
    IF variable \in DOMAIN ps.variable_map
    THEN [ps |-> ps, line |-> ps.variable_map[variable]]
    ELSE LET r == _create_line_of_identity(ps)
         IN [ps |-> [r.ps EXCEPT !.variable_map = Put(@, variable, r.line)],
             line |-> r.line]

_create_constant_predicate(ps, constant, parent_context) ==
    IF constant \in DOMAIN ps.constant_predicates
    THEN [ps |-> ps, pred |-> ps.constant_predicates[constant]]
    ELSE LET r == add_predicate(ps.g, capitalize(constant), 1, parent_context,
                                "relation", FALSE)
         IN [ps |-> [ps EXCEPT !.g = r.g,
                               !.constant_predicates = Put(@, constant, r.res)],
             pred |-> r.res]

_parse_single_constant(ps, token, parent_context) ==
    LET r == add_predicate(ps.g, capitalize(token), 0, parent_context, "relation", FALSE)
    IN [ps |-> [ps EXCEPT !.g = r.g, !.constant_predicates = Put(@, token, r.res)],
        type |-> "constant", err |-> ""]

RECURSIVE PredicateArgs(_, _, _, _, _)
PredicateArgs(ps, pred_id, arguments, i, parent_context) ==
    IF i > Len(arguments) THEN ps
    ELSE IF _is_constant(arguments[i])
    THEN LET c == _create_constant_predicate(ps, arguments[i], parent_context)
             l == _create_line_of_identity(c.ps)
         IN PredicateArgs(
                [l.ps EXCEPT !.hook_connections =
                                 Put(Put(@, <<c.pred, 1>>, l.line), <<pred_id, i>>, l.line)],
                pred_id, arguments, i + 1, parent_context)
    ELSE LET l == _get_or_create_line_for_variable(ps, arguments[i])
         IN PredicateArgs(
                [l.ps EXCEPT !.hook_connections = Put(@, <<pred_id, i>>, l.line)],
                pred_id, arguments, i + 1, parent_context)

_parse_predicate(ps, tokens, parent_context) ==
    LET inner_tokens == PySlice(tokens, 1, -1)
        arguments == Tail(inner_tokens)
        r == add_predicate(ps.g, inner_tokens[1], Len(arguments), parent_context,
                           "relation", FALSE)
    IN [ps |-> PredicateArgs([ps EXCEPT !.g = r.g], r.res, arguments, 1, parent_context),
        type |-> "predicate", err |-> ""]

_parse_equality(ps, tokens, parent_context) ==
    IF Len(tokens) # 5
    THEN [ps |-> ps, type |-> "", err |-> "Equality requires exactly two arguments"]
    ELSE LET l == _get_or_create_line_for_variable(ps, tokens[3])
         IN [ps |-> [l.ps EXCEPT !.variable_map = Put(@, tokens[4], l.line)],
             type |-> "equality", err |-> ""]

RECURSIVE ExistsVars(_, _)
ExistsVars(ps, variables) ==
    IF Len(variables) = 0 THEN ps
    ELSE ExistsVars(_get_or_create_line_for_variable(ps, variables[1]).ps, Tail(variables))

RECURSIVE _parse_expression(_, _, _)
RECURSIVE AndLoop(_, _, _, _, _)

_parse_exists(ps, tokens, parent_context) ==
    IF Len(tokens) < 5 THEN [ps |-> ps, type |-> "", err |-> "Malformed 'exists' expression"]
    ELSE LET var_end == _find_matching_paren(tokens, 2)
             variables == PySlice(tokens, 3, var_end)
             body_tokens == PySlice(tokens, var_end + 1, -1)
             r == _parse_expression(ExistsVars(ps, variables), body_tokens, parent_context)
         IN [r EXCEPT !.type = IF r.err = "" THEN "exists" ELSE ""]

_parse_not(ps, tokens, parent_context) ==
    IF Len(tokens) < 4 THEN [ps |-> ps, type |-> "", err |-> "Malformed 'not' expression"]
    ELSE LET cut == add_cut(ps.g, parent_context)
             r == _parse_expression([ps EXCEPT !.g = cut.g], PySlice(tokens, 2, -1),
                                    cut.res)
         IN [r EXCEPT !.type = IF r.err = "" THEN "not" ELSE ""]

\* the while loop of _parse_and; i is 0-based, n counts the conjuncts parsed
AndLoop(ps, inner_tokens, i, n, parent_context) ==
    IF i >= Len(inner_tokens)
    THEN (IF n = 0
          THEN [ps |-> ps, type |-> "", err |-> "No valid conjuncts found in 'and' expression"]
          ELSE [ps |-> ps, type |-> "and", err |-> ""])
    ELSE LET open == inner_tokens[i + 1] = <<LP>>
             end == _find_matching_paren(inner_tokens, i)
             expr_tokens == IF open THEN PySlice(inner_tokens, i, end + 1)
                            ELSE <<inner_tokens[i + 1]>>
             r == _parse_expression(ps, expr_tokens, parent_context)
         IN IF open /\ end = -1
            THEN [ps |-> ps, type |-> "", err |-> "Unclosed parenthesis in 'and'"]
            ELSE IF r.err # "" THEN r
            ELSE AndLoop(r.ps, inner_tokens, IF open THEN end + 1 ELSE i + 1, n + 1,
                         parent_context)

_parse_and(ps, tokens, parent_context) ==
    IF Len(tokens) < 4 THEN [ps |-> ps, type |-> "", err |-> "Malformed 'and' expression"]
    ELSE AndLoop(ps, PySlice(tokens, 2, -1), 0, 0, parent_context)

_parse_expression(ps, tokens, parent_context) ==
    IF Len(tokens) = 0 THEN [ps |-> ps, type |-> "", err |-> "Empty expression"]
    ELSE IF Len(tokens) = 1 THEN _parse_single_constant(ps, tokens[1], parent_context)
    ELSE IF tokens[1] = <<LP>> /\ tokens[Len(tokens)] = <<RP>>
    THEN (IF Len(tokens) = 2 THEN [ps |-> ps, type |-> "", err |-> "Empty parentheses"]
          ELSE IF tokens[2] = Str_exists THEN _parse_exists(ps, tokens, parent_context)
          ELSE IF tokens[2] = Str_and THEN _parse_and(ps, tokens, parent_context)
          ELSE IF tokens[2] = Str_not THEN _parse_not(ps, tokens, parent_context)
          ELSE IF tokens[2] = Str_eq THEN _parse_equality(ps, tokens, parent_context)
          ELSE _parse_predicate(ps, tokens, parent_context))
    ELSE [ps |-> ps, type |-> "", err |-> "Invalid expression"]

\* parse() on an editor whose model is g: the model afterwards, the result
\* dictionary's success flag and maps
parse(g, clif_string) ==
    LET t == _tokenize(clif_string)
        r == _parse_expression(NewParser(g), t.tokens, SA)
    IN IF t.err # ""
       THEN [g |-> g, success |-> FALSE, error |-> t.err, type |-> "",
             variable_map |-> <<>>, constant_predicates |-> <<>>,
             hook_connections |-> <<>>]
       ELSE IF r.err # ""
       THEN [g |-> r.ps.g, success |-> FALSE, error |-> r.err, type |-> "",
             variable_map |-> <<>>, constant_predicates |-> <<>>,
             hook_connections |-> <<>>]
       ELSE [g |-> r.ps.g, success |-> TRUE, error |-> "", type |-> r.type,
             variable_map |-> r.ps.variable_map,
             constant_predicates |-> r.ps.constant_predicates,
             hook_connections |-> r.ps.hook_connections]

\* ------------------------------------------------------------------ state
\* model:  the editor's GraphModel.
\* last:   history of the most recent call (its arguments, outcome and the
\*         model just before it), or op = "none" when the call was not recorded.
\*         A recorded call is followed only by the call that repeats or undoes
\*         it (Continues); every sequence of calls is explored through the
\*         unrecorded states.
\* script: calls still to be made before the exploration becomes free; limit
\*         is the last id the exploration may allocate.
VARIABLES model, last, script, limit

vars == <<model, last, script, limit>>

NoCall ==
    [op |-> "none", ids |-> <<>>, pairs |-> <<>>, res |-> None, err |-> "",
     pre |-> GraphModel, cont |-> FALSE, pre2 |-> GraphModel]

Continues(op, ids, pairs) ==
    /\ last.err = ""
    /\ \/ op = "connect" /\ last.op = "connect" /\ last.pairs = pairs
       \/ op = "remove_double_cut" /\ last.op = "insert_double_cut" /\ ids = <<last.res>>
       \/ op = "erase_constant" /\ last.op = "add_constant" /\ ids = <<last.res>>

Call(op, ids, pairs, r) ==
    [op |-> op, ids |-> ids, pairs |-> pairs, res |-> r.res, err |-> r.err,
     pre |-> model,
     cont |-> Continues(op, ids, pairs),
     pre2 |-> IF Continues(op, ids, pairs) THEN last.pre ELSE model]

Scripted(op, ids, pairs) ==
    script # <<>> => Head(script) = [op |-> op, ids |-> ids, pairs |-> pairs]

Do(op, ids, pairs, r) ==
    /\ last.op = "none" \/ Continues(op, ids, pairs)
    /\ Scripted(op, ids, pairs)
    /\ script = <<>> => r.g.next - 1 <= limit
    /\ model' = r.g
    /\ last' \in {NoCall, Call(op, ids, pairs, r)}
    /\ script' = IF script = <<>> THEN <<>> ELSE Tail(script)
    /\ limit' = IF Len(script) = 1 THEN r.g.next - 1 + MaxExtra ELSE limit

C(op, ids, pairs) == [op |-> op, ids |-> ids, pairs |-> pairs]

\* a constant on the sheet and its iterated copy inside a cut
SharedConstant ==
    << C("add_constant", <<SA>>, <<>>),
       C("add_cut", <<SA>>, <<>>),
       C("iterate", <<2, 5>>, <<>>) >>

\* a constant whose line is the input of a function
FunctionOfConstant ==
    << C("add_constant", <<SA>>, <<>>),
       C("apply_total_function_rule", <<3, SA>>, <<>>) >>

\* P on the sheet sharing a line with Q inside a cut
NegatedConjunction ==
    << C("add_predicate", <<SA, 1>>, <<>>),
       C("add_cut", <<SA>>, <<>>),
       C("add_predicate", <<3, 2>>, <<>>),
       C("connect", <<>>, << <<2, 1>>, <<4, 1>> >>) >>

\* P and Q on the sheet, each on a line of its own: two lines quantified at
\* one context
TwoRelations ==
    << C("add_predicate", <<SA, 1>>, <<>>),
       C("add_predicate", <<SA, 2>>, <<>>),
       C("connect", <<>>, << <<2, 1>> >>),
       C("connect", <<>>, << <<3, 1>> >>) >>

\* a double cut drawn around two predicates that lie in different contexts
DoubleCutAcrossContexts ==
    << C("add_predicate", <<SA, 1>>, <<>>),
       C("add_cut", <<SA>>, <<>>),
       C("add_predicate", <<3, 2>>, <<>>),
       C("insert_double_cut", <<2, 4>>, <<>>) >>

\* two total functions Q of no bound input, each with an output line of its own
TwoFunctions ==
    << C("apply_total_function_rule", <<SA>>, <<>>),
       C("apply_total_function_rule", <<SA>>, <<>>) >>

\* a line made by add_ligature, attached to nothing, as the input of a
\* function inside a cut
FunctionOfLooseLine ==
    << C("add_cut", <<SA>>, <<>>),
       C("add_ligature", <<>>, <<>>),
       C("apply_total_function_rule", <<3, 2>>, <<>>) >>

\* a constant asserted inside a cut and erased again
ConstantInCut ==
    << C("add_cut", <<SA>>, <<>>),
       C("add_constant", <<2>>, <<>>),
       C("erase_constant", <<3>>, <<>>) >>

\* the copy of a double cut is made inside the cut the double cut encloses,
\* and removed again: the enclosed cut ends up as its own child
CutInsideItself ==
    << C("add_cut", <<SA>>, <<>>),
       C("insert_double_cut", <<2>>, <<>>),
       C("iterate", <<3, 2>>, <<>>),
       C("remove_double_cut", <<5>>, <<>>) >>

\* P and Q in two cuts side by side inside a third cut, joined by one line
ConnectAcrossCuts ==
    << C("add_cut", <<SA>>, <<>>),
       C("add_cut", <<2>>, <<>>),
       C("add_cut", <<2>>, <<>>),
       C("add_predicate", <<3, 1>>, <<>>),
       C("add_predicate", <<4, 2>>, <<>>),
       C("connect", <<>>, << <<5, 1>>, <<6, 1>> >>) >>

\* P on the sheet joined to Q inside a double cut, and the double cut removed
JoinedAcrossDoubleCut ==
    << C("insert_double_cut", <<SA>>, <<>>),
       C("add_predicate", <<SA, 1>>, <<>>),
       C("add_predicate", <<3, 2>>, <<>>),
       C("connect", <<>>, << <<4, 1>>, <<5, 1>> >>),
       C("remove_double_cut", <<2>>, <<>>) >>

Scripts ==
    {<<>>, SharedConstant, FunctionOfConstant, NegatedConjunction, TwoRelations,
     DoubleCutAcrossContexts, TwoFunctions, FunctionOfLooseLine, ConstantInCut,
     CutInsideItself, ConnectAcrossCuts, JoinedAcrossDoubleCut}

Init ==
    /\ model = GraphModel
    /\ last = NoCall
    /\ script \in Scripts
    /\ limit = IF script = <<>> THEN MaxObjects + 1 ELSE 0

\* ----------------------------------------------------------------- inputs
Contexts == DOMAIN model.children

Preds == DOMAIN model.preds

Nodes == (Contexts \ {SA}) \cup Preds

Shapes == << <<P, 1, FALSE>>, <<Q, 1, FALSE>>, <<Q, 2, TRUE>>, <<P, 2, TRUE>> >>

SeqsUpTo(S, n) == UNION {[1..k -> S] : k \in 0..n}

Selections == {s \in SeqsUpTo(Nodes, MaxSel) : \A i, j \in DOMAIN s : s[i] = s[j] => i = j}

PairLists == SeqsUpTo(Preds \X (1..MaxHook), MaxPairs) \ {<<>>}

\* ---------------------------------------------------------------- actions
AddCut ==
    \E parent \in Contexts \cup Preds \cup {None} :
        Do("add_cut", <<parent>>, <<>>, add_cut(model, parent))

AddPredicate ==
    \E sh \in DOMAIN Shapes, parent \in Contexts \cup Preds \cup {None} :
        Do("add_predicate", <<parent, sh>>, <<>>,
           add_predicate(model, Shapes[sh][1], Shapes[sh][2], parent, "relation",
                         Shapes[sh][3]))

AddConstant ==
    \E parent \in Contexts :
        Do("add_constant", <<parent>>, <<>>, add_constant(model, a, parent))

EraseConstant ==
    \E p \in Preds :
        Do("erase_constant", <<p>>, <<>>, erase_constant(model, p))

Connect ==
    \E pairs \in PairLists :
        Do("connect", <<>>, pairs, connect(model, pairs))

InsertDoubleCut ==
    \E sel \in Selections, parent \in Contexts :
        /\ Len(sel) > 0 => parent = SA
        /\ Do("insert_double_cut", IF Len(sel) > 0 THEN sel ELSE <<parent>>, <<>>,
              insert_double_cut(model, sel, parent))

RemoveDoubleCut ==
    \E c \in Contexts :
        Do("remove_double_cut", <<c>>, <<>>, remove_double_cut(model, c))

Iterate ==
    \E sel \in Selections \ {<<>>}, target \in Contexts :
        Do("iterate", Append(sel, target), <<>>, iterate(model, sel, target))

ApplyFunctionalPropertyRule ==
    \E p1 \in Preds, p2 \in Preds :
        Do("apply_functional_property_rule", <<p1, p2>>, <<>>,
           apply_functional_property_rule(model, p1, p2))

ApplyTotalFunctionRule ==
    \E ins \in SeqsUpTo(DOMAIN model.lines, 1), parent \in Contexts :
        Do("apply_total_function_rule", Append(ins, parent), <<>>,
           apply_total_function_rule(model, Q, 2, ins, parent))

AddLigature ==
    Do("add_ligature", <<>>, <<>>, add_ligature(model))

Next ==
    \/ AddCut
    \/ AddPredicate
    \/ AddConstant
    \/ EraseConstant
    \/ Connect
    \/ InsertDoubleCut
    \/ RemoveDoubleCut
    \/ Iterate
    \/ ApplyFunctionalPropertyRule
    \/ ApplyTotalFunctionRule
    \/ AddLigature

Spec == Init /\ [][Next]_vars

\* ------------------------------------------------------------ parser inputs
\* Texts handed to ClifParser.parse: the expressions of the grammar up to a
\* nesting depth, each of them with one token left out or with one operand too
\* many, the texts of the repository's parser tests, and texts without tokens.
MaxDepth == 2

Var_X == <<88>>

Var_Y == <<89>>

Str_qx == <<63, 120>>

Str_Human == <<72, 117, 109, 97, 110>>

Wrap(tokens) == <<<<LP>>>> \o tokens \o <<<<RP>>>>

Atoms ==
    { <<a>>, Wrap(<<P>>), Wrap(<<P, Var_X>>), Wrap(<<P, Str_qx>>), Wrap(<<P, a>>),
      Wrap(<<Q, Var_X>>), Wrap(<<Str_eq, Var_X, Var_Y>>) }

RECURSIVE Exprs(_)
Exprs(depth) ==
    IF depth = 0 THEN Atoms
    ELSE LET E == Exprs(depth - 1)
         IN E \cup {Wrap(<<Str_not>> \o e) : e \in E}
              \cup {Wrap(<<Str_exists>> \o Wrap(<<Var_X>>) \o e) : e \in E}
              \cup {Wrap(<<Str_and>> \o Wrap(<<P, Var_X>>) \o e) : e \in E}

\* "(exists (?x) (Human ?x))"
SimpleExistential ==
    Wrap(<<Str_exists>> \o Wrap(<<Str_qx>>) \o Wrap(<<Str_Human, Str_qx>>))

\* "(exists (?x) (and (P ?x) (not (Q ?x))))"
NestedExpression ==
    Wrap(<<Str_exists>> \o Wrap(<<Str_qx>>)
         \o Wrap(<<Str_and>> \o Wrap(<<P, Str_qx>>)
                 \o Wrap(<<Str_not>> \o Wrap(<<Q, Str_qx>>))))

\* "(and (P Y) (= X Y))": Y is used before it is equated with X
EqualityAfterUse ==
    Wrap(<<Str_and>> \o Wrap(<<P, Var_Y>>) \o Wrap(<<Str_eq, Var_X, Var_Y>>))

\* "(and (= X Y) (Q Y))": Y is used after it is equated with X
EqualityBeforeUse ==
    Wrap(<<Str_and>> \o Wrap(<<Str_eq, Var_X, Var_Y>>) \o Wrap(<<Q, Var_Y>>))

\* "(and (P a) (Q a))": one constant named twice
ConstantTwice ==
    Wrap(<<Str_and>> \o Wrap(<<P, a>>) \o Wrap(<<Q, a>>))

Without(tokens, i) == SubSeq(tokens, 1, i - 1) \o SubSeq(tokens, i + 1, Len(tokens))

WithExtra(tokens) ==
    SubSeq(tokens, 1, Len(tokens) - 1) \o Wrap(<<Q, Var_X>>) \o <<<<RP>>>>

TokenLists ==
    LET E == Exprs(MaxDepth) \cup {SimpleExistential, NestedExpression,
                                    EqualityAfterUse, EqualityBeforeUse,
                                    ConstantTwice}
    IN E \cup UNION {{Without(e, i) : i \in DOMAIN e} : e \in E}
         \cup {WithExtra(e) : e \in E}

\* "; P" and "(Q X) ; P" over two lines
Texts ==
    {Join(t) : t \in TokenLists}
        \cup {<<59, SP, 80>>, <<LP, 81, SP, 10, 88, RP, SP, 59, 80, 10>>}

\* parse() as a call of the exploration: the try block catches every
\* exception of the body, so the call returns and never raises
ParseCall(g, text) ==
    [g |-> parse(g, text).g, res |-> None, err |-> ""]

\* one parse on a fresh editor; ids holds the characters of the text
Parse ==
    /\ script # <<>>
    /\ \E text \in Texts : Do("parse", text, <<>>, ParseCall(model, text))

ParseInit ==
    /\ model = GraphModel
    /\ last = NoCall
    /\ script \in {<<C("parse", text, <<>>)>> : text \in Texts}
    /\ limit = 0

ParseNext == Parse

ParseSpec == ParseInit /\ [][ParseNext]_vars

\* ================================================================== claims
SameGraph(g, h) ==
    /\ g.children = h.children
    /\ g.preds = h.preds
    /\ g.lines = h.lines
    /\ g.ligs = h.ligs

Holders(g, id) == {c \in DOMAIN g.children : id \in g.children[c]}

NodesOf(g) == ((DOMAIN g.children) \ {SA}) \cup DOMAIN g.preds

\* C1: after any sequence of editor operations the contexts form a tree rooted
\* at SA (SA has no parent, no cycles) and every Cut and Predicate in the
\* registry is a member of exactly one context's child set.
C1_ContextTree ==
    /\ Holders(model, SA) = {}
    /\ \A c \in DOMAIN model.children :
          LET path == _get_ancestors(model, c)
          IN ~Diverges(path) /\ path[Len(path)] = SA
    /\ \A n \in NodesOf(model) : Cardinality(Holders(model, n)) = 1

\* C2: after connect(pairs) on a non-empty list of hooks of existing predicates,
\* every hook in pairs is bound to one and the same LineOfIdentity; the returned
\* ligature refers to that line and is in that line's ligature set.
C2_ConnectSharesOneLine ==
    (last.op = "connect" /\ \A pr \in Range(last.pairs) : IsPredicate(last.pre, pr[1]))
    => /\ last.err = ""
       /\ \E line \in DOMAIN model.lines :
             /\ \A pr \in Range(last.pairs) : HookGet(model.preds[pr[1]], pr[2]) = line
             /\ last.res \in DOMAIN model.ligs
             /\ model.ligs[last.res].line_of_identity_id = line
             /\ last.res \in model.lines[line]

\* the line connect keeps, and the lines it merges into it: the lines of the
\* registry, other than the kept one, that hooks named in pairs were bound to
KeptLine(g, pairs) == FirstBound(g, pairs, 1)

MergedLines(g, pairs) ==
    IF ~IsLine(g, KeptLine(g, pairs)) THEN {}
    ELSE {l \in DOMAIN g.lines :
            /\ l # KeptLine(g, pairs)
            /\ \E pr \in Range(pairs) :
                  IsPredicate(g, pr[1]) /\ HookGet(g.preds[pr[1]], pr[2]) = l}

\* C3: when a connect merges line other into line primary, afterwards other is
\* absent from the registry, no predicate hook and no ligature line reference
\* anywhere in the registry equals other, and every ligature that belonged to
\* either line is in primary's ligature set.
C3_MergeLeavesNoReference ==
    last.op = "connect" =>
        LET primary == KeptLine(last.pre, last.pairs)
        IN \A other \in MergedLines(last.pre, last.pairs) :
              /\ other \notin Registry(model)
              /\ \A p \in DOMAIN model.preds :
                    \A h \in DOMAIN model.preds[p].hooks : model.preds[p].hooks[h] # other
              /\ \A l \in DOMAIN model.ligs : model.ligs[l].line_of_identity_id # other
              /\ IsLine(model, primary)
              /\ (last.pre.lines[other] \cup last.pre.lines[primary]) \subseteq
                     model.lines[primary]

\* a merge that had to rewrite the hook of a predicate the call did not name
C3_Witness ==
    /\ last.op = "connect"
    /\ last.err = ""
    /\ \E other \in MergedLines(last.pre, last.pairs) :
          \E p \in DOMAIN last.pre.preds :
              /\ \A pr \in Range(last.pairs) : pr[1] # p
              /\ \E h \in DOMAIN last.pre.preds[p].hooks :
                    /\ last.pre.preds[p].hooks[h] = other
                    /\ model.preds[p].hooks[h] = KeptLine(last.pre, last.pairs)

\* C4: a second connect with the same pairs leaves the set of lines and every
\* hook binding unchanged and adds exactly one new Ligature to the registry and
\* to the shared line's ligature set.
C4_SecondConnectAddsOnlyALigature ==
    (last.op = "connect" /\ last.cont) =>
        /\ last.err = ""
        /\ DOMAIN model.lines = DOMAIN last.pre.lines
        /\ model.preds = last.pre.preds
        /\ model.children = last.pre.children
        /\ (DOMAIN model.ligs) \ (DOMAIN last.pre.ligs) = {last.res}
        /\ (DOMAIN last.pre.ligs) \subseteq DOMAIN model.ligs
        /\ last.res \notin Registry(last.pre)
        /\ LET line == KeptLine(last.pre, last.pairs)
           IN /\ model.ligs[last.res].line_of_identity_id = line
              /\ \A l \in DOMAIN model.lines :
                    model.lines[l] =
                        IF l = line THEN last.pre.lines[l] \cup {last.res}
                        ELSE last.pre.lines[l]

C4_Witness ==
    /\ last.op = "connect"
    /\ last.cont
    /\ Len(last.pairs) = 2
    /\ last.pairs[1] # last.pairs[2]
    /\ Cardinality(model.lines[KeptLine(last.pre, last.pairs)]) >= 2

\* every hook of every predicate is bound to a line that carries a ligature
EveryHookBound(g) ==
    \A p \in DOMAIN g.preds : \A h \in DOMAIN g.preds[p].hooks :
        /\ IsLine(g, g.preds[p].hooks[h])
        /\ g.lines[g.preds[p].hooks[h]] # {}

\* C5: for a graph built with the editor, translating it, parsing that text
\* into a fresh editor and translating the parsed graph gives exactly the first
\* text again.
C5_RoundTripFixedPoint ==
    LET first == translate(model, <<>>, <<>>)
        parsed == parse(GraphModel, first.text)
    IN EveryHookBound(model) /\ first.err = ""
           => translate(parsed.g, <<>>, <<>>).text = first.text

Reverse(seq) == [i \in DOMAIN seq |-> seq[Len(seq) + 1 - i]]

\* the orders in which the ids of the graph may sort or be iterated, for two
\* assignments of uuid4 strings to the same objects
IdOrders == {SetToSeq(Registry(model)), Reverse(SetToSeq(Registry(model)))}

\* C6: the text of translate depends on the structure of the graph only: it is
\* the same whatever order the generated ids sort in and whatever order the
\* child sets are iterated in.
C6_TranslateIgnoresIds ==
    EveryHookBound(model) =>
        \A iter \in IdOrders, sort \in IdOrders :
            translate(model, iter, sort).text = translate(model, <<>>, <<>>).text

\* C7: insert_double_cut(selection) followed by remove_double_cut on the
\* returned outer cut restores the model: both new cuts are gone and all child
\* sets and the registry equal their state before the insert.
C7_DoubleCutRoundTrip ==
    (last.op = "remove_double_cut" /\ last.cont) =>
        /\ last.err = ""
        /\ SameGraph(model, last.pre2)

\* the target is a context strictly below the parent context of q
ProperDescendant(g, target, q) ==
    /\ IsContext(g, target)
    /\ get_parent_context(g, q) # None
    /\ get_parent_context(g, q) # target
    /\ get_parent_context(g, q) \in Range(_get_ancestors(g, target))

\* C8: iterate([q], target), target a proper descendant context of q's parent
\* context, adds to target exactly one new predicate with a fresh id, the label
\* and arity of q and every hook bound to the line id of the same hook of q;
\* q itself and its bindings are unchanged.
C8_IterateCopiesPredicate ==
    (/\ last.op = "iterate"
     /\ Len(last.ids) = 2
     /\ IsPredicate(last.pre, last.ids[1])
     /\ ProperDescendant(last.pre, last.ids[2], last.ids[1]))
    => LET q == last.ids[1]
           target == last.ids[2]
           new == Registry(model) \ Registry(last.pre)
       IN /\ last.err = ""
          /\ Cardinality(new) = 1
          /\ \A n \in new :
                /\ n >= last.pre.next
                /\ IsPredicate(model, n)
                /\ model.preds[n].label = last.pre.preds[q].label
                /\ DOMAIN model.preds[n].hooks = DOMAIN last.pre.preds[q].hooks
                /\ \A h \in DOMAIN model.preds[n].hooks :
                      model.preds[n].hooks[h] = last.pre.preds[q].hooks[h]
                /\ model.children[target] = last.pre.children[target] \cup {n}
          /\ model.preds[q] = last.pre.preds[q]
          /\ Registry(last.pre) \subseteq Registry(model)

\* a copied predicate whose hook is bound to a line
C8_Witness ==
    /\ last.op = "iterate"
    /\ last.err = ""
    /\ Len(last.ids) = 2
    /\ IsPredicate(last.pre, last.ids[1])
    /\ ProperDescendant(last.pre, last.ids[2], last.ids[1])
    /\ \E n \in (DOMAIN model.preds) \ (DOMAIN last.pre.preds) :
          \E h \in DOMAIN model.preds[n].hooks :
              /\ model.preds[n].hooks[h] # None
              /\ model.preds[n].hooks[h] = last.pre.preds[last.ids[1]].hooks[h]

RECURSIVE Inside(_, _, _)
Inside(g, c, seen) ==
    IF c \in seen \/ ~IsContext(g, c) THEN {}
    ELSE g.children[c] \cup UNION {Inside(g, d, seen \cup {c}) : d \in g.children[c]}

\* C9: when iterate copies a Cut that has children, the whole subtree is copied
\* with fresh ids: every object inside the copied cut is a new registry entry,
\* the copy's child set contains none of the original cut's child ids, and the
\* original subtree is unchanged.
C9_IterateCopiesSubtree ==
    (/\ last.op = "iterate"
     /\ last.err = ""
     /\ Len(last.ids) = 2
     /\ IsCut(last.pre, last.ids[1])
     /\ last.pre.children[last.ids[1]] # {})
    => LET orig == last.ids[1]
           copy == last.pre.next
       IN /\ IsCut(model, copy)
          /\ model.children[copy] # {}
          /\ model.children[copy] \cap last.pre.children[orig] = {}
          /\ \A n \in Inside(model, copy, {}) :
                n \in Registry(model) /\ n \notin Registry(last.pre)
          /\ \A c \in {orig} \cup Inside(last.pre, orig, {}) :
                IsContext(last.pre, c) =>
                    IsContext(model, c) /\ model.children[c] = last.pre.children[c]

\* the line of constant p is also referenced by a hook of another predicate
SharesLine(g, p) ==
    /\ IsPredicate(g, p)
    /\ g.preds[p].p_type = "constant"
    /\ HookGet(g.preds[p], 1) # None
    /\ \E q \in (DOMAIN g.preds) \ {p} :
          \E h \in DOMAIN g.preds[q].hooks : g.preds[q].hooks[h] = g.preds[p].hooks[1]

\* C10: erase_constant on a constant whose line is also referenced by a hook of
\* any other predicate raises a domain error and leaves the registry, all child
\* sets and all hook bindings unmodified.
C10_EraseSharedConstantRejected ==
    (last.op = "erase_constant" /\ SharesLine(last.pre, last.ids[1]))
    => /\ last.err = "ValueError"
       /\ SameGraph(model, last.pre)

\* the arity of a predicate: the number of its hooks
Arity(p) == Cardinality(DOMAIN p.hooks)

\* the precondition of the functional property rule, read off the graph
FunctionalPair(g, p1, p2) ==
    /\ g.preds[p1].is_functional /\ g.preds[p2].is_functional
    /\ g.preds[p1].label = g.preds[p2].label
    /\ Arity(g.preds[p1]) = Arity(g.preds[p2])
    /\ \A i \in 1..(Arity(g.preds[p1]) - 1) :
          HookGet(g.preds[p1], i) = HookGet(g.preds[p2], i)
    /\ \/ HookGet(g.preds[p1], Arity(g.preds[p1])) # HookGet(g.preds[p2], Arity(g.preds[p2]))
       \/ HookGet(g.preds[p1], Arity(g.preds[p1])) = None

\* C11: apply_functional_property_rule(p1, p2) succeeds exactly when both
\* predicates are functional, have the same label and arity, the same binding on
\* every input hook and differing or absent output bindings; on success both
\* output hooks are bound to one line, into which the two output lines were
\* merged; in every other case it raises.
C11_FunctionalPropertyRule ==
    last.op = "apply_functional_property_rule" =>
        LET p1 == last.ids[1]
            p2 == last.ids[2]
            out == Arity(last.pre.preds[p1])
            was == {HookGet(last.pre.preds[p1], out), HookGet(last.pre.preds[p2], out)}
                       \ {None}
        IN /\ last.err = "" <=> FunctionalPair(last.pre, p1, p2)
           /\ last.err # "" => last.err = "ValueError"
           /\ last.err = "" =>
                 /\ model.preds[p1].hooks[out] = model.preds[p2].hooks[out]
                 /\ IsLine(model, model.preds[p1].hooks[out])
                 /\ (was \cap DOMAIN model.lines) \subseteq {model.preds[p1].hooks[out]}

\* two different functions of the same inputs whose distinct output lines were
\* merged into one
C11_Witness ==
    /\ last.op = "apply_functional_property_rule"
    /\ last.err = ""
    /\ last.ids[1] # last.ids[2]
    /\ LET out == Arity(last.pre.preds[last.ids[1]])
       IN /\ IsLine(last.pre, last.pre.preds[last.ids[1]].hooks[out])
          /\ IsLine(last.pre, last.pre.preds[last.ids[2]].hooks[out])
          /\ last.pre.preds[last.ids[1]].hooks[out] # last.pre.preds[last.ids[2]].hooks[out]
          /\ ~IsLine(model, last.pre.preds[last.ids[2]].hooks[out])

\* the contexts n parent hops below the sheet, counted from the sheet downwards
RECURSIVE Level(_, _)
Level(g, n) ==
    IF n = 0 THEN {SA}
    ELSE {c \in (DOMAIN g.children) \ {SA} :
             \E parent \in Level(g, n - 1) : c \in g.children[parent]}

\* the contexts form a tree: every cut lies in exactly one child set and on
\* exactly one level below the sheet
ContextTree(g) ==
    /\ Holders(g, SA) = {}
    /\ \A c \in (DOMAIN g.children) \ {SA} :
          /\ Cardinality(Holders(g, c)) = 1
          /\ Cardinality({n \in 1..Cardinality(DOMAIN g.children) : c \in Level(g, n)}) = 1

\* C12: in a context tree, is_positive_context holds exactly for the contexts an
\* even number of parent hops below the sheet and is_negative_context is its
\* negation; the sheet is positive and a cut directly beneath it is negative.
C12_PolarityIsParityOfDepth ==
    ContextTree(model) =>
        /\ is_positive_context(model, SA) /\ ~is_negative_context(model, SA)
        /\ \A c \in model.children[SA] \cap DOMAIN model.children :
              is_negative_context(model, c) /\ ~is_positive_context(model, c)
        /\ \A n \in 0..Cardinality(DOMAIN model.children) : \A c \in Level(model, n) :
              /\ is_positive_context(model, c) <=> n % 2 = 0
              /\ is_negative_context(model, c) <=> n % 2 = 1

\* a tree with a cut on the sheet, a cut inside it and a cut inside that one
C12_Witness ==
    /\ ContextTree(model)
    /\ Level(model, 1) # {} /\ Level(model, 2) # {} /\ Level(model, 3) # {}
    /\ \A c \in Level(model, 2) : is_positive_context(model, c)
    /\ \A c \in Level(model, 3) : is_negative_context(model, c)

\* the contexts at or below the contexts of S
RECURSIVE Down(_, _)
Down(g, S) ==
    LET more == S \cup {c \in DOMAIN g.children : \E parent \in S : c \in g.children[parent]}
    IN IF more = S THEN S ELSE Down(g, more)

\* the parent contexts of the predicates attached through the ligatures of a line
Uses(g, line) ==
    UNION {Holders(g, pr[1]) :
              pr \in UNION {g.ligs[k].attachments : k \in g.lines[line] \cap DOMAIN g.ligs}}

\* ctx is the lowest context that lies at or above every context of X
IsLCA(g, ctx, X) ==
    /\ X # {}
    /\ X \subseteq Down(g, {ctx})
    /\ \A above \in DOMAIN g.children : X \subseteq Down(g, {above}) => ctx \in Down(g, {above})

\* contexts form a tree and every predicate lies in exactly one child set
WellFormed(g) ==
    ContextTree(g) /\ \A p \in DOMAIN g.preds : Cardinality(Holders(g, p)) = 1

\* C13: in translate a line's variable is listed in the exists of a context
\* exactly when that context is the lowest common ancestor of the parent contexts of all
\* predicates attached through the line's ligatures.
C13_QuantifiedAtLCA ==
    WellFormed(model) =>
        \A ctx \in DOMAIN model.children : \A line \in DOMAIN model.lines :
            line \in Range(ScopedLines(model, ctx, <<>>))
                <=> IsLCA(model, ctx, Uses(model, line))

\* some hook of a predicate in ctx or below it names the line
HookedBelow(g, ctx, line) ==
    \E p \in DOMAIN g.preds :
        /\ Holders(g, p) \cap Down(g, {ctx}) # {}
        /\ line \in Range(g.preds[p].hooks)

\* C13 as amended: a line's variable is listed in the exists of a context
\* exactly when a hook of a predicate in that context or below it names the
\* line and the context is the lowest common ancestor of the parent contexts of
\* the predicates attached through the line's ligatures, or, for a line that
\* has a ligature but no attached predicate, the context is the sheet.
C13_QuantifiedAtLCAOrSheet ==
    WellFormed(model) =>
        \A ctx \in DOMAIN model.children : \A line \in DOMAIN model.lines :
            line \in Range(ScopedLines(model, ctx, <<>>))
                <=> /\ HookedBelow(model, ctx, line)
                    /\ \/ IsLCA(model, ctx, Uses(model, line))
                       \/ /\ ctx = SA
                          /\ model.lines[line] # {}
                          /\ Uses(model, line) = {}

\* a line shared by a predicate on the sheet and a predicate inside a cut,
\* quantified once, at the sheet
C13_Witness ==
    /\ WellFormed(model)
    /\ \E line \in DOMAIN model.lines :
          /\ Cardinality(Uses(model, line)) = 2
          /\ SA \in Uses(model, line)
          /\ line \in Range(ScopedLines(model, SA, <<>>))
          /\ \A cut \in (DOMAIN model.children) \ {SA} :
                line \notin Range(ScopedLines(model, cut, <<>>))

\* the dictionary returned by the parse call just made
ParseResult == parse(last.pre, last.ids)

\* C14: after a successful parse every predicate hook whose argument is a
\* variable is bound in the model (predicate.hooks[i]) to the line that
\* variable_map records for the variable, a line id that is not None; and
\* parsing "(exists (?x) (Human ?x))", one variable and one atom, creates
\* exactly one line of identity and exactly one predicate.
C14_ParserBindsHooks ==
    last.op = "parse" /\ ParseResult.success =>
        /\ \A k \in DOMAIN ParseResult.hook_connections :
              ParseResult.hook_connections[k] \in Range(ParseResult.variable_map) =>
                  /\ k[1] \in DOMAIN model.preds
                  /\ k[2] \in DOMAIN model.preds[k[1]].hooks
                  /\ model.preds[k[1]].hooks[k[2]] = ParseResult.hook_connections[k]
                  /\ model.preds[k[1]].hooks[k[2]] # None
        /\ last.ids = Join(SimpleExistential) =>
              /\ Cardinality(DOMAIN model.lines) = 1
              /\ Cardinality(DOMAIN model.preds) = 1

IsAtom(token) == token \notin {<<LP>>, <<RP>>}

\* the tokens are one expression of the grammar of the parser (ExprsFrom: a
\* row of such expressions): an atom, (exists (var*) expr), (and expr+),
\* (not expr), (= var var) or (predName term*)
RECURSIVE IsExpr(_)
RECURSIVE ExprsFrom(_)
ExprsFrom(tokens) ==
    IF Len(tokens) = 0 THEN TRUE
    ELSE IF IsAtom(tokens[1]) THEN ExprsFrom(Tail(tokens))
    ELSE LET end == _find_matching_paren(tokens, 0)
         IN /\ end # -1
            /\ IsExpr(SubSeq(tokens, 1, end + 1))
            /\ ExprsFrom(SubSeq(tokens, end + 2, Len(tokens)))

IsExpr(tokens) ==
    IF Len(tokens) = 1 THEN IsAtom(tokens[1])
    ELSE /\ Len(tokens) >= 3
         /\ _find_matching_paren(tokens, 0) = Len(tokens) - 1
         /\ LET head == tokens[2]
                rest == SubSeq(tokens, 3, Len(tokens) - 1)
            IN IF head = Str_exists
               THEN /\ Len(rest) >= 1
                    /\ LET end == _find_matching_paren(rest, 0)
                       IN /\ end >= 1
                          /\ \A k \in 2..end : IsAtom(rest[k])
                          /\ IsExpr(SubSeq(rest, end + 2, Len(rest)))
               ELSE IF head = Str_and THEN Len(rest) >= 1 /\ ExprsFrom(rest)
               ELSE IF head = Str_not THEN IsExpr(rest)
               ELSE IF head = Str_eq
               THEN Len(rest) = 2 /\ IsAtom(rest[1]) /\ IsAtom(rest[2])
               ELSE IsAtom(head) /\ \A k \in DOMAIN rest : IsAtom(rest[k])

\* no token, unbalanced parentheses, or one parenthesised form headed by
\* exists, and, not or = that is no expression of the grammar
Malformed(tokens) ==
    \/ Len(tokens) = 0
    \/ ParenCount(tokens, 1, 0) # 0
    \/ /\ Len(tokens) >= 3
       /\ _find_matching_paren(tokens, 0) = Len(tokens) - 1
       /\ tokens[2] \in {Str_exists, Str_and, Str_not, Str_eq}
       /\ ~IsExpr(tokens)

\* the maps of a failed parse are empty and it carries a message; a successful
\* one carries the type of its result tree
Structured(r) ==
    /\ r.success => r.type \in {"constant", "predicate", "and", "not", "exists", "equality"}
    /\ ~r.success =>
          /\ r.error # ""
          /\ r.variable_map = <<>>
          /\ r.constant_predicates = <<>>
          /\ r.hook_connections = <<>>

\* C15: parse never propagates an exception: for an empty text, unbalanced
\* parentheses or a malformed exists, and, not or = it returns success = false
\* with an error message and empty maps, and for an expression of the grammar
\* it returns success = true with the result tree and the maps.
C15_ParseReportsMalformedInput ==
    last.op = "parse" =>
        /\ last.err = ""
        /\ Structured(ParseResult)
        /\ Malformed(Scan(last.ids)) => ~ParseResult.success
        /\ IsExpr(Scan(last.ids)) => ParseResult.success

\* the part of C15 that does not depend on which texts count as malformed
C15_ParseNeverRaises ==
    last.op = "parse" =>
        /\ last.err = ""
        /\ Structured(ParseResult)
        /\ IsExpr(Scan(last.ids)) => ParseResult.success
        /\ Len(Scan(last.ids)) = 0 \/ ParenCount(Scan(last.ids), 1, 0) # 0
              => ~ParseResult.success

\* C16: after any sequence of editor operations every id held in a context's
\* child set names an object present in the registry.
C16_ChildrenAreRegistered ==
    \A c \in DOMAIN model.children : model.children[c] \subseteq Registry(model)

\* what remains of C16 when every cut and predicate has exactly one parent
\* before the call: no operation leaves a child set naming a removed object
C16_FromSingleParents ==
    [][(/\ \A n \in NodesOf(model) : Cardinality(Holders(model, n)) = 1
        /\ C16_ChildrenAreRegistered)
           => C16_ChildrenAreRegistered']_vars

\* the calls the editor rejects, read off the graph before the call: a parent
\* that is missing or no context, a double cut that is none, a target of
\* iterate that is the source context or no descendant of it, a pair that
\* fails the precondition of the functional property rule
Rejected(g, op, ids) ==
    \/ /\ op \in {"add_cut", "add_predicate"}
       /\ ids[1] \notin DOMAIN g.children
    \/ /\ op = "remove_double_cut"
       /\ ~(/\ ids[1] \in (DOMAIN g.children) \ {SA}
            /\ \E c \in (DOMAIN g.children) \ {SA} : g.children[ids[1]] = {c})
    \/ /\ op = "iterate"
       /\ \A source \in Holders(g, ids[1]) :
             \/ ids[Len(ids)] = source
             \/ ids[Len(ids)] \notin Down(g, {source})
    \/ /\ op = "apply_functional_property_rule"
       /\ ~FunctionalPair(g, ids[1], ids[2])

\* C17: every editor operation that is rejected raises an error and leaves
\* the model, its registry, child sets and hook bindings, exactly as before
\* the call; and whatever call raises the editor's ValueError changes nothing.
C17_RejectedCallsChangeNothing ==
    /\ Rejected(last.pre, last.op, last.ids) =>
          /\ last.err \notin {"", "Hang"}
          /\ model = last.pre
    /\ last.err = "ValueError" => model = last.pre

\* C18: add_constant adds exactly one unary predicate of kind constant, in
\* the child set of its parent, whose hook 1 is bound to a fresh line that no
\* other hook names and that carries exactly one ligature with that single
\* attachment; erase_constant on it directly afterwards removes the predicate,
\* the line and the ligature, so that the registry and all child sets equal
\* their state before add_constant.
C18_ConstantAddedThenErased ==
    /\ last.op = "add_constant" /\ ~last.cont =>
          LET p == last.res
              parent == last.ids[1]
          IN /\ last.err = ""
             /\ p \notin Registry(last.pre)
             /\ DOMAIN model.preds = (DOMAIN last.pre.preds) \cup {p}
             /\ \A q \in DOMAIN last.pre.preds : model.preds[q] = last.pre.preds[q]
             /\ model.preds[p].p_type = "constant"
             /\ model.preds[p].label = a
             /\ ~model.preds[p].is_functional
             /\ DOMAIN model.preds[p].hooks = {1}
             /\ model.children = [last.pre.children EXCEPT ![parent] = @ \cup {p}]
             /\ \E line \in (DOMAIN model.lines) \ Registry(last.pre) :
                \E lig \in (DOMAIN model.ligs) \ Registry(last.pre) :
                   /\ model.preds[p].hooks[1] = line
                   /\ \A q \in (DOMAIN model.preds) \ {p} : line \notin Range(model.preds[q].hooks)
                   /\ model.lines[line] = {lig}
                   /\ model.ligs[lig].line_of_identity_id = line
                   /\ model.ligs[lig].attachments = {<<p, 1>>}
                   /\ Registry(model) = Registry(last.pre) \cup {p, line, lig}
                   /\ \A l \in DOMAIN last.pre.lines : model.lines[l] = last.pre.lines[l]
                   /\ \A l \in DOMAIN last.pre.ligs : model.ligs[l] = last.pre.ligs[l]
    /\ last.op = "erase_constant" /\ last.cont =>
          /\ last.err = ""
          /\ SameGraph(model, last.pre2)

\* a constant added inside a cut and erased by the next call
C18_Witness ==
    /\ last.op = "erase_constant"
    /\ last.cont
    /\ last.err = ""
    /\ last.pre.preds # last.pre2.preds
    /\ \E c \in (DOMAIN last.pre.children) \ {SA} : last.ids[1] \in last.pre.children[c]

\* the positions in pairs of the hooks that are bound, and what the first of
\* them is bound to
BoundPairs(g, pairs) ==
    {i \in DOMAIN pairs : HookGet(g.preds[pairs[i][1]], pairs[i][2]) # None}

FirstLine(g, pairs) ==
    HookGet(g.preds[pairs[Min(BoundPairs(g, pairs))][1]], pairs[Min(BoundPairs(g, pairs))][2])

\* the other lines of the registry that hooks in pairs are bound to
OtherLines(g, pairs) ==
    {l \in DOMAIN g.lines :
        /\ l # FirstLine(g, pairs)
        /\ \E i \in BoundPairs(g, pairs) : HookGet(g.preds[pairs[i][1]], pairs[i][2]) = l}

StartsWith(text, prefix) ==
    Len(text) >= Len(prefix) /\ SubSeq(text, 1, Len(prefix)) = prefix

\* what the translator returns for a cut
CutText(g, cut) == _translate_context(g, cut, NoVars, {}, <<>>, <<>>)

\* C20: the translation of a cut is the translation of its contents, the
\* exists of the lines scoped at that cut included, wrapped in (not ...): a cut
\* at which a line is scoped renders as (not (exists (v...) body)).
C20_CutQuantifiesInsideNot ==
    \A cut \in (DOMAIN model.children) \ {SA} :
        (CutText(model, cut).err = "" /\ CutText(model, cut).text # <<>>) =>
            /\ StartsWith(CutText(model, cut).text, <<LP>> \o Str_not \o <<SP>>)
            /\ ScopedLines(model, cut, <<>>) # <<>> =>
                  StartsWith(CutText(model, cut).text,
                             <<LP>> \o Str_not \o <<SP, LP>> \o Str_exists \o <<SP, LP>>)

\* the parent contexts of the predicates named in pairs, as the editor finds them
ParentsOf(g, pairs) == {get_parent_context(g, pr[1]) : pr \in Range(pairs)}

\* the contexts met on the way from ctx to the root, ctx included
PathUp(g, ctx) == Range(_get_ancestors(g, ctx))

\* the cuts that lie on the way up from some context of X but not on the way up
\* from every context of X: the common part starts at the lowest common ancestor
CutsBelowLCA(g, X) ==
    {c \in (DOMAIN g.children) \ {SA} :
        /\ \E ctx \in X : c \in PathUp(g, ctx)
        /\ \E ctx \in X : c \notin PathUp(g, ctx)}

\* the same set read downwards from the child sets: the cuts that hold some
\* context of X in their subtree and lie properly below the lowest common ancestor
CutsBetween(g, X) ==
    {c \in (DOMAIN g.children) \ {SA} :
        /\ \E ctx \in X : ctx \in Down(g, {c})
        /\ \E lca \in DOMAIN g.children :
              IsLCA(g, lca, X) /\ c \in Down(g, {lca}) /\ c # lca}

\* C21: a ligature that connect creates with two or more attachments has as
\* traversed_cuts exactly the cuts on the paths from each attachment
\* predicate's parent context up to, but excluding, the lowest common ancestor
\* of those contexts: the empty set when all attachments lie in one context,
\* and never the lowest common ancestor itself. Paths follow the parent the
\* editor finds for a context; where every cut and predicate has one parent
\* the set is also the one given by the child sets.
C21_TraversedCutsBelowLCA ==
    (/\ last.op = "connect"
     /\ last.err = ""
     /\ Cardinality(Range(last.pairs)) >= 2) =>
        LET X == ParentsOf(model, last.pairs)
            cuts == model.ligs[last.res].traversed_cuts
        IN /\ model.ligs[last.res].attachments = Range(last.pairs)
           /\ cuts = CutsBelowLCA(model, X)
           /\ Cardinality(X) = 1 => cuts = {}
           /\ _find_lca(model, SetToSeq(X)) \notin cuts
           /\ WellFormed(model) =>
                 /\ cuts = CutsBetween(model, X)
                 /\ \A lca \in DOMAIN model.children :
                       IsLCA(model, lca, X) => lca \notin cuts

\* connect joined predicates in two cuts that lie side by side in a third cut:
\* both are traversed, the cut around them is not
C21_Witness ==
    /\ last.op = "connect"
    /\ last.err = ""
    /\ WellFormed(model)
    /\ Cardinality(ParentsOf(model, last.pairs)) = 2
    /\ model.ligs[last.res].traversed_cuts = ParentsOf(model, last.pairs)
    /\ \E lca \in (DOMAIN model.children) \ {SA} :
          IsLCA(model, lca, ParentsOf(model, last.pairs))

\* the positions in tokens at which (= x y) stands
Equalities(tokens) ==
    {k \in DOMAIN tokens :
        /\ k + 4 <= Len(tokens)
        /\ tokens[k] = <<LP>> /\ tokens[k + 1] = Str_eq
        /\ IsAtom(tokens[k + 2]) /\ IsAtom(tokens[k + 3])
        /\ tokens[k + 4] = <<RP>>}

\* the names written as the i-th argument of a predicate named label
ArgNames(tokens, label, i) ==
    {tokens[k + 1 + i] : k \in {n \in DOMAIN tokens :
        /\ n + 1 + i <= Len(tokens)
        /\ tokens[n] = <<LP>> /\ tokens[n + 1] = label
        /\ \A j \in 1..i : IsAtom(tokens[n + 1 + j])}}

\* C22: after the parser has processed (= x y), variable_map maps x and y to
\* one line id, and every hook binding recorded in the same parse for an
\* argument written x or y, also one parsed before the equality, is that line.
C22_EqualityUnifiesOccurrences ==
    (/\ last.op = "parse"
     /\ ParseResult.success
     /\ IsExpr(Scan(last.ids))) =>
        \A k \in Equalities(Scan(last.ids)) :
            LET tokens == Scan(last.ids)
                x == tokens[k + 2]
                y == tokens[k + 3]
                r == ParseResult
            IN /\ x \in DOMAIN r.variable_map
               /\ y \in DOMAIN r.variable_map
               /\ r.variable_map[x] = r.variable_map[y]
               /\ \A h \in DOMAIN r.hook_connections :
                     (/\ h[1] \in DOMAIN model.preds
                      /\ ArgNames(tokens, model.preds[h[1]].label, h[2]) # {}
                      /\ ArgNames(tokens, model.preds[h[1]].label, h[2]) \subseteq {x, y}) =>
                         r.hook_connections[h] = r.variable_map[x]

\* what C22 says of a name used only after the equality was processed
C22_LaterOccurrencesShareTheLine ==
    (last.op = "parse" /\ last.ids = Join(EqualityBeforeUse)) =>
        /\ ParseResult.success
        /\ ParseResult.variable_map[Var_X] = ParseResult.variable_map[Var_Y]
        /\ \A h \in DOMAIN ParseResult.hook_connections :
              ParseResult.hook_connections[h] = ParseResult.variable_map[Var_X]
        /\ ParseResult.hook_connections # <<>>

\* the hook bindings recorded for arguments that are written as constant c
ConstantArguments(tokens, r, g, c) ==
    {h \in DOMAIN r.hook_connections :
        /\ h[1] \in DOMAIN g.preds
        /\ h[1] # r.constant_predicates[c]
        /\ ArgNames(tokens, g.preds[h[1]].label, h[2]) = {c}}

\* C23: at the end of a successful parse the line recorded for a constant
\* argument at position i of predicate p is the line recorded for hook 1 of
\* the constant's unary predicate, also when the constant is named more than
\* once and its predicate is reused.
C23_ConstantArgumentSharesLine ==
    (/\ last.op = "parse"
     /\ ParseResult.success
     /\ IsExpr(Scan(last.ids))) =>
        \A c \in DOMAIN ParseResult.constant_predicates :
            \A h \in ConstantArguments(Scan(last.ids), ParseResult, model, c) :
                /\ <<ParseResult.constant_predicates[c], 1>> \in
                       DOMAIN ParseResult.hook_connections
                /\ ParseResult.hook_connections[h] =
                       ParseResult.hook_connections[<<ParseResult.constant_predicates[c], 1>>]

\* what C23 says of constants that are named once in the text
C23_SingleOccurrenceSharesLine ==
    (/\ last.op = "parse"
     /\ ParseResult.success
     /\ IsExpr(Scan(last.ids))) =>
        \A c \in DOMAIN ParseResult.constant_predicates :
            Cardinality({k \in DOMAIN Scan(last.ids) : Scan(last.ids)[k] = c}) = 1 =>
                \A h \in ConstantArguments(Scan(last.ids), ParseResult, model, c) :
                    ParseResult.hook_connections[h] =
                        ParseResult.hook_connections[<<ParseResult.constant_predicates[c], 1>>]

\* C24: the attachments of a ligature are exactly the pairs passed to the
\* connect call that created it, and no later operation (connect, a merge of
\* lines, iterate, insertion or removal of a double cut) changes the
\* attachments of a ligature that exists.
C24_AttachmentsFixedAtCreation ==
    [][/\ \A l \in (DOMAIN model.ligs) \cap (DOMAIN model'.ligs) :
             model'.ligs[l].attachments = model.ligs[l].attachments
       /\ (last'.op = "connect" /\ last'.err = "") =>
             /\ last'.res \in (DOMAIN model'.ligs) \ (DOMAIN model.ligs)
             /\ model'.ligs[last'.res].attachments = Range(last'.pairs)]_vars

\* a connect merged two lines: the ligature of the line that went was moved to
\* the surviving line and still has the attachments it was created with
C24_Witness ==
    /\ last.op = "connect"
    /\ last.err = ""
    /\ \E l \in (DOMAIN last.pre.ligs) \cap (DOMAIN model.ligs) :
          /\ model.ligs[l].line_of_identity_id # last.pre.ligs[l].line_of_identity_id
          /\ model.ligs[l].attachments # {}
          /\ model.ligs[l].attachments # Range(last.pairs)
          /\ model.ligs[l].attachments = last.pre.ligs[l].attachments

\* C25: after any sequence of editor operations every bound hook of every
\* predicate in the registry holds the id of a line that is in the registry;
\* erase_constant never deletes a line that the hook of another predicate,
\* such as an iterated copy of the constant, still names.
C25_HooksNameRegisteredLines ==
    \A p \in DOMAIN model.preds :
        \A h \in DOMAIN model.preds[p].hooks :
            model.preds[p].hooks[h] # None => model.preds[p].hooks[h] \in DOMAIN model.lines

\* what remains of C25 for the operations other than erase_constant: no step
\* of theirs leaves a hook naming a line that is not in the registry
C25_OtherOperationsKeepLines ==
    [][(C25_HooksNameRegisteredLines /\ last'.op \notin {"erase_constant", "none"})
          => C25_HooksNameRegisteredLines']_vars

\* C26: the hook map of a predicate has exactly the keys 1..arity it was
\* created with, whatever is called afterwards: connect with a hook index
\* outside 1..arity adds no hook, and the output hook of a functional
\* predicate stays equal to its arity.
C26_HookKeysFixedAtCreation ==
    [][/\ \A p \in (DOMAIN model.preds) \cap (DOMAIN model'.preds) :
             /\ DOMAIN model'.preds[p].hooks = DOMAIN model.preds[p].hooks
             /\ output_hook(model'.preds[p]) = output_hook(model.preds[p])
       /\ (last'.op = "add_predicate" /\ last'.err = "") =>
             DOMAIN model'.preds[last'.res].hooks = 1..Shapes[last'.ids[2]][2]
       /\ (last'.op = "apply_total_function_rule" /\ last'.err = "") =>
             /\ DOMAIN model'.preds[last'.res].hooks = 1..2
             /\ output_hook(model'.preds[last'.res]) = 2]_vars

\* what remains of C26 for the operations other than connect
C26_OnlyConnectAddsHooks ==
    [][last'.op \notin {"connect", "apply_functional_property_rule", "none"} =>
          \A p \in (DOMAIN model.preds) \cap (DOMAIN model'.preds) :
              DOMAIN model'.preds[p].hooks = DOMAIN model.preds[p].hooks]_vars

\* C27: translate terminates and returns a string on every graph that a
\* sequence of editor operations can reach, also after iterate has copied a
\* cut into a context nested inside that same cut.
C27_TranslateTerminates ==
    translate(model, <<>>, <<>>).err = ""

\* what remains of C27 where the contexts form a tree
C27_TerminatesOnTrees ==
    ContextTree(model) => translate(model, <<>>, <<>>).err = ""

\* the text of translate as tokens, and in them: the positions where an
\* (exists (v...) body) opens, where it closes, and its list of variables
Output(g) == Scan(translate(g, <<>>, <<>>).text)

ExistsAt(tokens) ==
    {n \in DOMAIN tokens :
        n + 2 <= Len(tokens) /\ tokens[n] = <<LP>> /\ tokens[n + 1] = Str_exists
        /\ tokens[n + 2] = <<LP>>}

ClosesAt(tokens, n) == _find_matching_paren(tokens, n - 1) + 1

ListedAt(tokens, n) == (n + 3)..(ClosesAt(tokens, n + 2) - 1)

\* the positions of the variables in the lists of exists, and of the
\* variables in clauses
Listings(tokens) == UNION {ListedAt(tokens, n) : n \in ExistsAt(tokens)}

Occurrences(tokens) ==
    {k \in DOMAIN tokens : tokens[k][1] = 63 /\ k \notin Listings(tokens)}

\* the exists that list the variable written at position k
BindersOf(tokens, k) ==
    {n \in ExistsAt(tokens) : \E j \in ListedAt(tokens, n) : tokens[j] = tokens[k]}

\* C28: in the text of translate every variable that occurs in a clause is
\* listed in exactly one exists and each of its occurrences lies inside that
\* exists: there is no free variable and no variable is quantified twice.
\* Stated for graphs in which every hook is bound to a line of the registry.
C28_VariablesBoundOnce ==
    (/\ translate(model, <<>>, <<>>).err = ""
     /\ \A p \in DOMAIN model.preds :
           Range(model.preds[p].hooks) \subseteq DOMAIN model.lines) =>
        LET tokens == Output(model)
        IN /\ \A k \in Occurrences(tokens) :
                 /\ Cardinality(BindersOf(tokens, k)) = 1
                 /\ \A n \in BindersOf(tokens, k) : n < k /\ k < ClosesAt(tokens, n)
           /\ \A j, k \in Listings(tokens) : tokens[j] = tokens[k] => j = k

\* the half of C28 that holds: no variable is listed in two exists, and an
\* occurrence of a listed variable lies inside the exists that lists it,
\* where every predicate has one parent context
C28_NoVariableQuantifiedTwice ==
    (translate(model, <<>>, <<>>).err = "" /\ WellFormed(model)) =>
        LET tokens == Output(model)
        IN /\ \A j, k \in Listings(tokens) : tokens[j] = tokens[k] => j = k
           /\ \A k \in Occurrences(tokens) :
                 \A n \in BindersOf(tokens, k) : n < k /\ k < ClosesAt(tokens, n)

\* C29: when parse returns success = false the entity model is unchanged: no
\* predicate, cut, line or ligature made while parsing the rejected text is
\* left in the registry or in a child set.
C29_FailedParseChangesNothing ==
    (last.op = "parse" /\ ~ParseResult.success) => SameGraph(model, last.pre)

\* what remains of C29 for texts that are rejected before the first object is
\* made: no token, or an outermost form that is not closed
C29_RejectedAtOnceChangesNothing ==
    (/\ last.op = "parse"
     /\ \/ Len(Scan(last.ids)) = 0
        \/ /\ Len(Scan(last.ids)) > 1
           /\ Scan(last.ids)[Len(Scan(last.ids))] # <<RP>>) =>
        ~ParseResult.success /\ SameGraph(model, last.pre)

\* the cached traversed_cuts of ligature l is what the attachments' parent
\* contexts give now, and names cuts of the registry only
CacheIsCurrent(g, l) ==
    LET X == {get_parent_context(g, pr[1]) : pr \in g.ligs[l].attachments}
    IN /\ g.ligs[l].traversed_cuts \subseteq (DOMAIN g.children) \ {SA}
       /\ Cardinality(g.ligs[l].attachments) >= 2 =>
             g.ligs[l].traversed_cuts = CutsBetween(g, X)

\* C30: after any sequence of editor operations the cached traversed_cuts of
\* every ligature equals the set of cuts between its attachment predicates'
\* current parent contexts and their current lowest common ancestor and holds
\* only ids of cuts in the registry; insert_double_cut, remove_double_cut and
\* iterate do not leave it stale. Stated for graphs whose contexts and
\* predicates form a tree.
C30_TraversedCutsAreCurrent ==
    WellFormed(model) => \A l \in DOMAIN model.ligs : CacheIsCurrent(model, l)

\* what remains of C30 for the operations that move no predicate: in a tree
\* no step of theirs makes a current cache stale
C30_OtherOperationsKeepCache ==
    [][(/\ WellFormed(model) /\ WellFormed(model')
        /\ last'.op \notin {"insert_double_cut", "remove_double_cut", "none"}
        /\ \A l \in DOMAIN model.ligs : CacheIsCurrent(model, l))
          => \A l \in DOMAIN model'.ligs : CacheIsCurrent(model', l)]_vars

====
